---- MODULE Spec2Model ----
(***************************************************************************)
(* A model of the occupational-builder editor core: the snapshot history   *)
(* log (model/history.ts), the object update pipeline                      *)
(* (model/objectUpdate.ts), the application shell that routes every edit   *)
(* through applySnapshot (app/AppShell.tsx) and the canvas gestures        *)
(* (ui/canvas/Canvas2D.tsx).                                               *)
(*                                                                         *)
(* Numbers.  JavaScript numbers are modelled as fixed-point integers that  *)
(* count sixteenths of a millimetre (of a degree for angles), so that      *)
(* halves and quarters exist, halving them is exact and Math.round is not  *)
(* the identity.  Q(mm) converts whole millimetres.  NaN, PosInfinity and  *)
(* NegInfinity are the three non-finite numbers.                           *)
(*                                                                         *)
(* References.  Every JavaScript object the history module can alias (a    *)
(* snapshot, its objects array, an object record, its measurements map,    *)
(* its measurementLabels / measurementAnchors maps and their per-key       *)
(* values) carries a field `ref`: its identity.  Creating an object takes  *)
(* the next identity of a counter (nextRef), so it is new.  Two model    *)
(* values denote the same JavaScript reference iff their refs are equal.   *)
(***************************************************************************)
EXTENDS Integers, Sequences, FiniteSets, TLC

VARIABLES
    history,      \* AppShell's HistoryState: [past, present, future]
    lastArg,      \* the snapshot the caller passed to the last history call
    lastEvent,    \* name of the operation / UI event that ran last
    lastCall,     \* history function the last event invoked ("none" if none)
    prevCall,     \* lastCall of the event before the last one
    nextRef,      \* the first identity no object has taken yet
    commits,      \* number of commitSnapshot calls made so far
    detours,      \* number of undo / redo / replacePresent calls so far
    steps,        \* number of operations run since the initial state
    activeTool,   \* AppShell's activeTool
    made,         \* number of object ids makeId has produced
    resizeState,  \* Canvas2D's resizeState: NoSession or the ResizeSession
    resizeCommittedRef,  \* Canvas2D's resizeCommittedRef.current
    draggingId,   \* Canvas2D's draggingId
    dragNode,     \* id of the node the canvas library is dragging, or Null
    gesture,      \* bookkeeping on the current / last drag or resize gesture
    pureCall,     \* the last direct call of a pure function: arguments and result
    spacePanning, \* Canvas2D's spacePanning: the space bar is held
    isPanningRef, \* Canvas2D's isPanningRef.current: a pan is in progress
    camera,       \* Canvas2D's camera: its translation in px, from the centred start
    mounted,      \* AppShell is mounted
    saveTimerRef, \* AppShell's saveTimerRef.current: a timer id or Null
    timers,       \* the browser's pending save timers: [id, snapshot]
    storage,      \* the project in localStorage
    lastWrite     \* the project the last fired timer passed to saveProject

panVars == <<spacePanning, isPanningRef, camera>>

saveVars == <<mounted, saveTimerRef, timers, storage, lastWrite>>

uiVars == <<activeTool, made, resizeState, resizeCommittedRef, draggingId, dragNode, gesture,
            spacePanning, isPanningRef, camera,
            mounted, saveTimerRef, timers, storage, lastWrite>>

vars == <<history, lastArg, lastEvent, lastCall, prevCall, nextRef, commits, detours, steps,
          activeTool, made, resizeState, resizeCommittedRef, draggingId, dragNode, gesture,
          pureCall, spacePanning, isPanningRef, camera,
          mounted, saveTimerRef, timers, storage, lastWrite>>

-----------------------------------------------------------------------------
(* Bounds of the model *)

\* number of operations a behaviour runs after its initial state
MaxSteps == 6
\* SpecBound: number of commits in the longest run, and number of
\* undo / redo / replacePresent calls interleaved with its end
MaxRun == 54
MaxDetours == 3
\* Spec: number of user events a behaviour runs after the project is restored
MaxEvents == 4
\* SpecUpdate: number of handleUpdateObject calls of a behaviour
MaxUpdates == 3
\* SpecPick: length of the longest candidate list of an axis
MaxCandidates == 3

-----------------------------------------------------------------------------
(* Numbers *)

Q(mm) == mm * 16

\* NaN: a number far outside the workspace that no arithmetic produces
NaN == Q(0 - 100000000)
\* +Infinity and -Infinity: above and below every finite number of the model
PosInfinity == Q(120000000)
NegInfinity == Q(0 - 120000000)

\* Number.isFinite
IsFinite(v) == v \notin {NaN, PosInfinity, NegInfinity}

Abs(v) == IF v < 0 THEN -v ELSE v
\* Math.max and Math.min: NaN when an argument is NaN
MathMax(a, b) == IF a = NaN \/ b = NaN THEN NaN ELSE IF a > b THEN a ELSE b
MathMin(a, b) == IF a = NaN \/ b = NaN THEN NaN ELSE IF a < b THEN a ELSE b
Half(v) == v \div 2

\* Math.round: the nearest integer, halves rounded towards +Infinity
MathRound(v) == IF v = NaN THEN NaN ELSE ((v + Half(Q(1))) \div Q(1)) * Q(1)

\* the remainder operator %, whose result has the sign of the dividend
JsRem(a, b) == IF a >= 0 THEN a % b ELSE -((-a) % b)

-----------------------------------------------------------------------------
(* model/types.ts, model/defaults.ts *)

MEASUREMENT_KEYS == <<"L1", "L2", "W1", "W2", "WL", "WR", "H", "E">>

KeySet == {MEASUREMENT_KEYS[i] : i \in 1..Len(MEASUREMENT_KEYS)}

KeyIdx(k) == CHOOSE i \in 1..Len(MEASUREMENT_KEYS) : MEASUREMENT_KEYS[i] = k

DEFAULT_MEASUREMENT_OFFSET_MM == 200
DEFAULT_LANDING_LENGTH_MM == 1200
DEFAULT_LANDING_WIDTH_MM == 1200
DEFAULT_LANDING_HEIGHT_MM == 50

\* `undefined` as a label value, `null` as a selection
Undefined == [defined |-> FALSE]
Null == "null"
\* `null` as a resize session
NoSession == [objectId |-> Null]

\* number of identities one object record takes: the record, its three maps
\* and one value per key in the labels and anchors maps
ObjCells == 4 + 2 * Len(MEASUREMENT_KEYS)

\* The object `obj` rebuilt as new JavaScript objects: the record, the
\* measurements map, the labels map with each defined value, the anchors map
\* with each value.  Field values are kept.
FreshObject(obj, base) ==
    [obj EXCEPT
        !.ref = base,
        !.measurements = [@ EXCEPT !.ref = base + 1],
        !.measurementLabels =
            [ref |-> base + 2,
             vals |-> [k \in DOMAIN @.vals |->
                          IF @.vals[k] = Undefined THEN Undefined
                          ELSE [@.vals[k] EXCEPT !.ref = base + 2 + KeyIdx(k)]]],
        !.measurementAnchors =
            [ref |-> base + 3 + Len(MEASUREMENT_KEYS),
             vals |-> [k \in DOMAIN @.vals |->
                          [@.vals[k] EXCEPT
                              !.ref = base + 3 + Len(MEASUREMENT_KEYS) + KeyIdx(k)]]]]

defaultMeasurements == [ref |-> 0, flags |-> [k \in KeySet |-> FALSE]]

defaultMeasurementAnchors ==
    [ref |-> 0,
     vals |-> [k \in KeySet |->
                  [ref |-> 0, offsetMm |-> Q(DEFAULT_MEASUREMENT_OFFSET_MM),
                   orientation |-> "auto"]]]

defaultMeasurementLabels == [ref |-> 0, vals |-> <<>>]

newLandingAt(id, xMm, yMm, base) ==
    FreshObject(
        [ref |-> 0, id |-> id, kind |-> "landing", xMm |-> xMm, yMm |-> yMm,
         lengthMm |-> Q(DEFAULT_LANDING_LENGTH_MM),
         widthMm |-> Q(DEFAULT_LANDING_WIDTH_MM),
         heightMm |-> Q(DEFAULT_LANDING_HEIGHT_MM),
         elevationMm |-> 0, rotationDeg |-> 0, locked |-> FALSE,
         measurements |-> defaultMeasurements,
         measurementLabels |-> defaultMeasurementLabels,
         measurementAnchors |-> defaultMeasurementAnchors],
        base)

DEFAULT_RAMP_RUN_MM == 1800
DEFAULT_RAMP_WIDTH_MM == 1000
DEFAULT_RAMP_HEIGHT_MM == 300

newRampAt(id, xMm, yMm, base) ==
    FreshObject(
        [ref |-> 0, id |-> id, kind |-> "ramp", xMm |-> xMm, yMm |-> yMm,
         lengthMm |-> Q(DEFAULT_RAMP_RUN_MM),
         widthMm |-> Q(DEFAULT_RAMP_WIDTH_MM),
         heightMm |-> Q(DEFAULT_RAMP_HEIGHT_MM),
         elevationMm |-> 0, rotationDeg |-> 0, locked |-> FALSE,
         measurements |-> defaultMeasurements,
         measurementLabels |-> defaultMeasurementLabels,
         measurementAnchors |-> defaultMeasurementAnchors,
         runMm |-> Q(DEFAULT_RAMP_RUN_MM), showArrow |-> TRUE,
         hasLeftWing |-> FALSE, leftWingSizeMm |-> 0,
         hasRightWing |-> FALSE, rightWingSizeMm |-> 0],
        base)

-----------------------------------------------------------------------------
(* Identities *)

ObjRefs(obj) ==
    {obj.ref, obj.measurements.ref, obj.measurementLabels.ref,
     obj.measurementAnchors.ref}
    \cup {obj.measurementLabels.vals[k].ref :
            k \in {j \in DOMAIN obj.measurementLabels.vals :
                      obj.measurementLabels.vals[j] # Undefined}}
    \cup {obj.measurementAnchors.vals[k].ref : k \in DOMAIN obj.measurementAnchors.vals}

SnapRefs(s) ==
    {s.ref, s.objectsRef}
    \cup UNION {ObjRefs(s.objects[i]) : i \in 1..Len(s.objects)}

SeqRefs(ss) == UNION {SnapRefs(ss[i]) : i \in 1..Len(ss)}

\* number of identities a copy of snapshot `s` takes
SnapCells(s) == 2 + Len(s.objects) * ObjCells

-----------------------------------------------------------------------------
(* model/history.ts *)

MAX_PAST == 50

\* a copy that is a new snapshot object around the same objects array
cloneSnapshotShallow(snapshot, base) == [snapshot EXCEPT !.ref = base]

\* Each operation below takes `base`, the allocation pointer at the call: the
\* objects it creates take the identities from `base` on, in the order of the
\* cloneSnapshot calls in the source.
cloneSnapshot(snapshot, base) ==
    [snapshot EXCEPT
        !.ref = base,
        !.objectsRef = base + 1,
        !.objects = [i \in 1..Len(snapshot.objects) |->
                        FreshObject(snapshot.objects[i], base + 2 + (i - 1) * ObjCells)]]

createHistoryState(initial, base) ==
    [past |-> <<>>,
     present |-> cloneSnapshot(initial, base),
     future |-> <<>>]

\* a replace that also records the old present as an undo step
replacePresentPushes(h, nextPresent, base) ==
    [h EXCEPT !.past = Append(@, h.present),
              !.present = cloneSnapshot(nextPresent, base)]

replacePresent(h, nextPresent, base) ==
    [h EXCEPT !.present = cloneSnapshot(nextPresent, base)]

\* the trim with pop() in place of shift(): the newest entry is dropped
TrimPastDropsNewest(nextPast) ==
    IF Len(nextPast) > MAX_PAST THEN SubSeq(nextPast, 1, MAX_PAST) ELSE nextPast

\* nextPast.shift() once the array is longer than MAX_PAST
TrimPast(nextPast) == IF Len(nextPast) > MAX_PAST THEN Tail(nextPast) ELSE nextPast

\* a commit that keeps the redo branch
commitSnapshotKeepsFuture(h, nextPresent, base) ==
    [past |-> TrimPast(Append(h.past, cloneSnapshot(h.present, base))),
     present |-> cloneSnapshot(nextPresent, base + SnapCells(h.present)),
     future |-> h.future]

commitSnapshot(h, nextPresent, base) ==
    LET nextPast == Append(h.past, cloneSnapshot(h.present, base))
    IN  [past |-> TrimPast(nextPast),
         present |-> cloneSnapshot(nextPresent, base + SnapCells(h.present)),
         future |-> <<>>]

\* an undo that pushes the restored snapshot, not the present, onto future
undoLosesPresent(h, base) ==
    IF Len(h.past) = 0 THEN h
    ELSE [past |-> SubSeq(h.past, 1, Len(h.past) - 1),
          present |-> cloneSnapshot(h.past[Len(h.past)], base + SnapCells(h.present)),
          future |-> <<cloneSnapshot(h.past[Len(h.past)], base)>> \o h.future]

\* an undo whose underflow branch returns a rebuilt history
undoRebuildsOnUnderflow(h, base) ==
    IF Len(h.past) = 0 THEN [h EXCEPT !.present = cloneSnapshot(h.present, base)]
    ELSE [past |-> SubSeq(h.past, 1, Len(h.past) - 1),
          present |-> cloneSnapshot(h.past[Len(h.past)], base + SnapCells(h.present)),
          future |-> <<cloneSnapshot(h.present, base)>> \o h.future]

undo(h, base) ==
    IF Len(h.past) = 0 THEN h
    ELSE LET previous == h.past[Len(h.past)]
             nextPast == SubSeq(h.past, 1, Len(h.past) - 1)
             nextFuture == <<cloneSnapshot(h.present, base)>> \o h.future
         IN  [past |-> nextPast,
              present |-> cloneSnapshot(previous, base + SnapCells(h.present)),
              future |-> nextFuture]

redo(h, base) ==
    IF Len(h.future) = 0 THEN h
    ELSE LET nextPresent == Head(h.future)
             restFuture == Tail(h.future)
             nextPast == Append(h.past, cloneSnapshot(h.present, base))
         IN  [past |-> TrimPast(nextPast),
              present |-> cloneSnapshot(nextPresent, base + SnapCells(h.present)),
              future |-> restFuture]

\* identities taken by one call of the operation: one per object created
CommitCells(h, nextPresent) == SnapCells(h.present) + SnapCells(nextPresent)
UndoCells(h) ==
    IF Len(h.past) = 0 THEN 0 ELSE SnapCells(h.present) + SnapCells(h.past[Len(h.past)])
RedoCells(h) ==
    IF Len(h.future) = 0 THEN 0 ELSE SnapCells(h.present) + SnapCells(Head(h.future))

canUndo(h) == Len(h.past) > 0
canRedo(h) == Len(h.future) > 0

-----------------------------------------------------------------------------
(* model/units.ts *)

\* Math.round(mm / stepMm) * stepMm, stepMm in whole millimetres
snapMm(mm, stepMm) ==
    ((2 * mm + Q(stepMm)) \div (2 * Q(stepMm))) * Q(stepMm)

-----------------------------------------------------------------------------
(* model/geometry.ts.  Angles are right angles (the rotations the model    *)
(* draws), where Math.cos and Math.sin are taken as exactly 0, 1 and -1.   *)

CosDeg(deg) ==
    LET d == deg % Q(360)
    IN  IF d = 0 THEN 1 ELSE IF d = Q(180) THEN -1 ELSE 0

SinDeg(deg) ==
    LET d == deg % Q(360)
    IN  IF d = Q(90) THEN 1 ELSE IF d = Q(270) THEN -1 ELSE 0

Point(x, y) == [xMm |-> x, yMm |-> y]

isVerticalRotation(rotationDeg) == Abs(JsRem(rotationDeg, Q(180))) = Q(90)

rotatePointMm(point, rotationDeg) ==
    Point(point.xMm * CosDeg(rotationDeg) - point.yMm * SinDeg(rotationDeg),
          point.xMm * SinDeg(rotationDeg) + point.yMm * CosDeg(rotationDeg))

\* the outline's points (their order does not matter to the bounding box)
getRampOutlinePointsMm(obj) ==
    LET halfLength == Half(obj.runMm)
        halfWidth == Half(obj.widthMm)
        lw == IF obj.hasLeftWing THEN obj.leftWingSizeMm ELSE 0
        rw == IF obj.hasRightWing THEN obj.rightWingSizeMm ELSE 0
    IN  {Point(-halfLength, -halfWidth), Point(-halfLength, halfWidth),
         Point(halfLength, halfWidth), Point(halfLength, -halfWidth)}
        \cup (IF rw > 0 THEN {Point(halfLength, halfWidth + rw)} ELSE {})
        \cup (IF lw > 0 THEN {Point(halfLength, -halfWidth - lw)} ELSE {})

SetMin(S) == CHOOSE m \in S : \A n \in S : m <= n
SetMax(S) == CHOOSE m \in S : \A n \in S : n <= m

boundingBoxFromPoints(points) ==
    LET xs == {pt.xMm : pt \in points}
        ys == {pt.yMm : pt \in points}
    IN  [widthMm |-> SetMax(xs) - SetMin(xs),
         heightMm |-> SetMax(ys) - SetMin(ys),
         offsetXMm |-> Half(SetMin(xs) + SetMax(xs)),
         offsetYMm |-> Half(SetMin(ys) + SetMax(ys))]

getRampBoundingBoxMm(obj) ==
    boundingBoxFromPoints(
        {rotatePointMm(pt, obj.rotationDeg) : pt \in getRampOutlinePointsMm(obj)})

getObjectBoundingBoxMm(obj) ==
    IF obj.kind = "ramp" THEN getRampBoundingBoxMm(obj)
    ELSE IF isVerticalRotation(obj.rotationDeg)
         THEN [widthMm |-> obj.widthMm, heightMm |-> obj.lengthMm,
               offsetXMm |-> 0, offsetYMm |-> 0]
         ELSE [widthMm |-> obj.lengthMm, heightMm |-> obj.widthMm,
               offsetXMm |-> 0, offsetYMm |-> 0]

\* for the tools "ramp" and "landing" (the others give null)
getDefaultBoundingBoxMm(tool) ==
    IF tool = "ramp"
    THEN [widthMm |-> Q(DEFAULT_RAMP_RUN_MM), heightMm |-> Q(DEFAULT_RAMP_WIDTH_MM),
          offsetXMm |-> 0, offsetYMm |-> 0]
    ELSE [widthMm |-> Q(DEFAULT_LANDING_LENGTH_MM), heightMm |-> Q(DEFAULT_LANDING_WIDTH_MM),
          offsetXMm |-> 0, offsetYMm |-> 0]

topLeftFromCenterMm(center, size) ==
    Point(center.xMm + size.offsetXMm - Half(size.widthMm),
          center.yMm + size.offsetYMm - Half(size.heightMm))

centerFromTopLeftMm(topLeft, size) ==
    Point(topLeft.xMm - size.offsetXMm + Half(size.widthMm),
          topLeft.yMm - size.offsetYMm + Half(size.heightMm))

-----------------------------------------------------------------------------
(* ui/canvas/Canvas2D.tsx: geometry and snapping.  Pointer positions are    *)
(* given as world positions in millimetres (after screenToWorld).          *)

SNAP_THRESHOLD_MM == 20
MIN_INCREMENT_MM == 1
MIN_OBJECT_SIZE_MM == 100

ObjCentre(obj) == Point(obj.xMm, obj.yMm)

getAabbMm(obj, center) ==
    LET size == getObjectBoundingBoxMm(obj)
        topLeft == topLeftFromCenterMm(center, size)
    IN  [left |-> topLeft.xMm, right |-> topLeft.xMm + size.widthMm,
         top |-> topLeft.yMm, bottom |-> topLeft.yMm + size.heightMm,
         cx |-> center.xMm + size.offsetXMm, cy |-> center.yMm + size.offsetYMm,
         w |-> size.widthMm, h |-> size.heightMm]

\* topLeft, topRight, bottomLeft, bottomRight, midTop, midBottom, midLeft,
\* midRight, centre
getPoisMm(aabb) ==
    <<[x |-> aabb.left, y |-> aabb.top], [x |-> aabb.right, y |-> aabb.top],
      [x |-> aabb.left, y |-> aabb.bottom], [x |-> aabb.right, y |-> aabb.bottom],
      [x |-> aabb.cx, y |-> aabb.top], [x |-> aabb.cx, y |-> aabb.bottom],
      [x |-> aabb.left, y |-> aabb.cy], [x |-> aabb.right, y |-> aabb.cy],
      [x |-> aabb.cx, y |-> aabb.cy]>>

getBodySize(obj) ==
    IF obj.kind = "ramp" THEN [lengthMm |-> obj.runMm, widthMm |-> obj.widthMm]
    ELSE [lengthMm |-> obj.lengthMm, widthMm |-> obj.widthMm]

getHandleLocalPoint(obj, corner) ==
    LET halfLength == Half(getBodySize(obj).lengthMm)
        halfWidth == Half(getBodySize(obj).widthMm)
        isLeft == corner \in {"topLeft", "bottomLeft"}
        isTop == corner \in {"topLeft", "topRight"}
    IN  Point(IF isLeft THEN -halfLength ELSE halfLength,
              IF isTop THEN -halfWidth ELSE halfWidth)

getHandleWorldPoint(obj, corner) ==
    LET rotated == rotatePointMm(getHandleLocalPoint(obj, corner), obj.rotationDeg)
    IN  Point(obj.xMm + rotated.xMm, obj.yMm + rotated.yMm)

handleConfig ==
    [topLeft |-> [anchor |-> "bottomRight", dirX |-> -1, dirY |-> -1],
     topRight |-> [anchor |-> "bottomLeft", dirX |-> 1, dirY |-> -1],
     bottomLeft |-> [anchor |-> "topRight", dirX |-> -1, dirY |-> 1],
     bottomRight |-> [anchor |-> "topLeft", dirX |-> 1, dirY |-> 1]]

\* The candidates one axis collects from the pairs (active[i], target[j]),
\* in the order the nested forEach loops push them; a pair further apart
\* than SNAP_THRESHOLD_MM pushes nothing.
PairCandidates(active, target, type) ==
    LET n == Len(target)
        all == [k \in 1..(Len(active) * n) |->
                   LET i == ((k - 1) \div n) + 1
                       j == ((k - 1) % n) + 1
                   IN  [delta |-> target[j] - active[i], snapCoord |-> target[j],
                        type |-> type]]
    IN  SelectSeq(all, LAMBDA c : Abs(c.delta) <= Q(SNAP_THRESHOLD_MM))

AxisFaces(aabb, axis) ==
    IF axis = "x" THEN <<aabb.left, aabb.cx, aabb.right>>
    ELSE <<aabb.top, aabb.cy, aabb.bottom>>

AxisPois(aabb, axis) ==
    [i \in 1..Len(getPoisMm(aabb)) |->
        IF axis = "x" THEN getPoisMm(aabb)[i].x ELSE getPoisMm(aabb)[i].y]

\* xCandidates / yCandidates after otherObjects.forEach: per other object its
\* face candidates, then its point-of-interest candidates
RECURSIVE AxisCandidates(_, _, _, _)
AxisCandidates(activeFaces, activePois, otherObjects, axis) ==
    IF otherObjects = <<>> THEN <<>>
    ELSE LET targetAabb == getAabbMm(Head(otherObjects), ObjCentre(Head(otherObjects)))
         IN  PairCandidates(activeFaces, AxisFaces(targetAabb, axis), "face")
             \o PairCandidates(activePois, AxisPois(targetAabb, axis), "poi")
             \o AxisCandidates(activeFaces, activePois, Tail(otherObjects), axis)

NoCandidate == [found |-> FALSE, delta |-> 0, type |-> "none"]

\* pool.reduce: the first candidate of the pool that no other is nearer than
FirstNearest(pool) ==
    IF pool = <<>> THEN NoCandidate
    ELSE LET best == CHOOSE i \in 1..Len(pool) :
                        /\ \A j \in 1..Len(pool) : Abs(pool[i].delta) <= Abs(pool[j].delta)
                        /\ \A j \in 1..(i - 1) : Abs(pool[j].delta) > Abs(pool[i].delta)
         IN  [found |-> TRUE, delta |-> pool[best].delta, type |-> pool[best].type]

\* a pick that finds no candidate
pickNone(candidates) == NoCandidate

\* a pick that takes the nearest candidate of either type
pickNearestOfAll(candidates) == FirstNearest(candidates)

\* the pool is the face candidates if there are any, else all candidates
pickBestAxisCandidate(candidates) ==
    IF Len(SelectSeq(candidates, LAMBDA c : c.type = "face")) > 0
    THEN FirstNearest(SelectSeq(candidates, LAMBDA c : c.type = "face"))
    ELSE FirstNearest(candidates)

OtherObjects(objects, id) == SelectSeq(objects, LAMBDA o : o.id # id)

SnapPoint(pt, stepXMm, stepYMm) == Point(snapMm(pt.xMm, stepXMm), snapMm(pt.yMm, stepYMm))

\* getObjectSnap, snapping off: the top-left corner rounded to the millimetre
FreeCentre(bbox, proposedCentre) ==
    centerFromTopLeftMm(
        SnapPoint(topLeftFromCenterMm(proposedCentre, bbox), MIN_INCREMENT_MM, MIN_INCREMENT_MM),
        bbox)

\* getObjectSnap: bestX / bestY of the object moved to proposedCentre
DragBest(activeAabb, snap, id, axis) ==
    pickBestAxisCandidate(
        IF snap.snapToObjects
        THEN AxisCandidates(AxisFaces(activeAabb, axis), AxisPois(activeAabb, axis),
                            OtherObjects(snap.objects, id), axis)
        ELSE <<>>)

\* a composition that snaps both axes to the grid whatever the objects gave
GridCentreBothAxes(bbox, proposedCentre, bestX, bestY, snap) ==
    centerFromTopLeftMm(
        SnapPoint(topLeftFromCenterMm(Point(proposedCentre.xMm + bestX.delta,
                                            proposedCentre.yMm + bestY.delta), bbox),
                  IF snap.snapToGrid THEN snap.snapIncrementMm ELSE MIN_INCREMENT_MM,
                  IF snap.snapToGrid THEN snap.snapIncrementMm ELSE MIN_INCREMENT_MM),
        bbox)

\* getObjectSnap from snappedAfterObject on: an axis no object claimed snaps
\* its top-left corner to the grid (if on), the other to the millimetre
GridCentre(bbox, proposedCentre, bestX, bestY, snap) ==
    centerFromTopLeftMm(
        SnapPoint(topLeftFromCenterMm(Point(proposedCentre.xMm + bestX.delta,
                                            proposedCentre.yMm + bestY.delta), bbox),
                  IF snap.snapToGrid /\ ~bestX.found
                  THEN snap.snapIncrementMm ELSE MIN_INCREMENT_MM,
                  IF snap.snapToGrid /\ ~bestY.found
                  THEN snap.snapIncrementMm ELSE MIN_INCREMENT_MM),
        bbox)

\* getObjectSnap: the centre a dragged object snaps to
getObjectSnap(obj, proposedCentre, snap) ==
    IF ~snap.snapToGrid /\ ~snap.snapToObjects
    THEN FreeCentre(getObjectBoundingBoxMm(obj), proposedCentre)
    ELSE GridCentre(getObjectBoundingBoxMm(obj), proposedCentre,
                    DragBest(getAabbMm(obj, proposedCentre), snap, obj.id, "x"),
                    DragBest(getAabbMm(obj, proposedCentre), snap, obj.id, "y"),
                    snap)

-----------------------------------------------------------------------------
(* model/objectUpdate.ts *)

roundMm(mm) == MathRound(mm)

\* the optional parameter max?: number, as a sequence of at most one number
NoMax == <<>>

\* clampInt(value, min, max?): round, clamp, then fall back to min when the
\* clamped value is not finite
clampInt(value, min, max) ==
    LET rounded == MathRound(value)
        clamped == MathMax(min, IF max # NoMax THEN MathMin(max[1], rounded) ELSE rounded)
    IN  IF IsFinite(clamped) THEN clamped ELSE min

\* x % 360 is NaN for every non-finite x
normaliseDeg(deg) ==
    LET rounded == MathRound(deg)
    IN  IF ~IsFinite(rounded) THEN NaN
        ELSE JsRem(JsRem(rounded, Q(360)) + Q(360), Q(360))

Has(patch, field) == field \in DOMAIN patch

\* a merge that replaces the map wholesale: a key the patch leaves out is off
mergeMeasurementsReplaces(current, patch, base) ==
    IF ~Has(patch, "measurements") THEN current
    ELSE [ref |-> base,
          flags |-> [k \in KeySet |->
                        IF k \in DOMAIN patch.measurements
                        THEN patch.measurements[k] ELSE FALSE]]

\* mergeMeasurements: the current map itself when there is no patch
mergeMeasurements(current, patch, base) ==
    IF ~Has(patch, "measurements") THEN current
    ELSE [ref |-> base,
          flags |-> [k \in KeySet |->
                        IF k \in DOMAIN patch.measurements
                        THEN patch.measurements[k] ELSE current.flags[k]]]

\* mergeMeasurementAnchors: a patched key gets a new value object, the other
\* keys keep the value objects of `current`
mergeMeasurementAnchors(current, patch, base) ==
    IF ~Has(patch, "measurementAnchors") THEN current
    ELSE LET p == patch.measurementAnchors
         IN  [ref |-> base,
              vals |-> [k \in KeySet |->
                  IF k \in DOMAIN p
                  THEN [ref |-> base + KeyIdx(k),
                        offsetMm |-> IF "offsetMm" \in DOMAIN p[k]
                                     THEN p[k].offsetMm ELSE current.vals[k].offsetMm,
                        orientation |-> IF "orientation" \in DOMAIN p[k]
                                        THEN p[k].orientation
                                        ELSE current.vals[k].orientation]
                  ELSE current.vals[k]]]

\* current[key]?.xMm ?? 0
LabelCoord(labels, k, f) ==
    IF k \in DOMAIN labels.vals /\ labels.vals[k] # Undefined THEN labels.vals[k][f] ELSE 0

\* mergeMeasurementLabels: H and E always get a new value object, the other
\* keys keep what `current` has (undefined when it has none)
mergeMeasurementLabels(current, patch, base) ==
    IF ~Has(patch, "measurementLabels") THEN current
    ELSE LET p == patch.measurementLabels
             coord(k, f) == IF k \in DOMAIN p /\ f \in DOMAIN p[k]
                            THEN p[k][f] ELSE LabelCoord(current, k, f)
         IN  [ref |-> base,
              vals |-> [k \in KeySet |->
                  IF k \in {"H", "E"}
                  THEN [ref |-> base + KeyIdx(k),
                        xMm |-> coord(k, "xMm"), yMm |-> coord(k, "yMm")]
                  ELSE IF k \in DOMAIN current.vals THEN current.vals[k]
                       ELSE Undefined]]

\* a base normalisation that leaves the position and the rotation as given
normaliseBaseObjectSizesOnly(obj) ==
    [obj EXCEPT
        !.lengthMm = clampInt(obj.lengthMm, 0, NoMax),
        !.widthMm = clampInt(obj.widthMm, 0, NoMax),
        !.heightMm = clampInt(obj.heightMm, 0, NoMax),
        !.elevationMm = clampInt(obj.elevationMm, 0, NoMax)]

normaliseBaseObject(obj) ==
    [obj EXCEPT
        !.lengthMm = clampInt(obj.lengthMm, 0, NoMax),
        !.widthMm = clampInt(obj.widthMm, 0, NoMax),
        !.heightMm = clampInt(obj.heightMm, 0, NoMax),
        !.elevationMm = clampInt(obj.elevationMm, 0, NoMax),
        !.rotationDeg = normaliseDeg(obj.rotationDeg),
        !.xMm = roundMm(obj.xMm),
        !.yMm = roundMm(obj.yMm)]

\* a ramp normalisation that clamps the wing sizes whatever the flags say
normaliseRampObjectKeepsWings(obj) ==
    LET base == normaliseBaseObject(obj)
    IN  [base EXCEPT
            !.runMm = clampInt(base.runMm, 0, NoMax),
            !.leftWingSizeMm = clampInt(base.leftWingSizeMm, 0, NoMax),
            !.rightWingSizeMm = clampInt(base.rightWingSizeMm, 0, NoMax)]

normaliseRampObject(obj) ==
    LET base == normaliseBaseObject(obj)
    IN  [base EXCEPT
            !.runMm = clampInt(base.runMm, 0, NoMax),
            !.leftWingSizeMm = clampInt(IF base.hasLeftWing THEN base.leftWingSizeMm ELSE 0, 0, NoMax),
            !.rightWingSizeMm = clampInt(IF base.hasRightWing THEN base.rightWingSizeMm ELSE 0, 0, NoMax)]

normaliseLandingObject(obj) == normaliseBaseObject(obj)

measurementsEqual(a, b) == \A k \in KeySet : a.flags[k] = b.flags[k]

\* === on two numbers: NaN equals nothing, itself included
NumEq(x, y) == x # NaN /\ y # NaN /\ x = y

anchorsEqual(a, b) ==
    \A k \in KeySet :
        /\ NumEq(a.vals[k].offsetMm, b.vals[k].offsetMm)
        /\ a.vals[k].orientation = b.vals[k].orientation

labelsEqual(a, b) ==
    \A k \in KeySet :
        /\ NumEq(LabelCoord(a, k, "xMm"), LabelCoord(b, k, "xMm"))
        /\ NumEq(LabelCoord(a, k, "yMm"), LabelCoord(b, k, "yMm"))

objectsEqual(a, b) ==
    LET baseEqual ==
            /\ a.id = b.id
            /\ a.kind = b.kind
            /\ NumEq(a.xMm, b.xMm)
            /\ NumEq(a.yMm, b.yMm)
            /\ NumEq(a.lengthMm, b.lengthMm)
            /\ NumEq(a.widthMm, b.widthMm)
            /\ NumEq(a.heightMm, b.heightMm)
            /\ NumEq(a.elevationMm, b.elevationMm)
            /\ NumEq(a.rotationDeg, b.rotationDeg)
            /\ a.locked = b.locked
            /\ measurementsEqual(a.measurements, b.measurements)
            /\ anchorsEqual(a.measurementAnchors, b.measurementAnchors)
            /\ labelsEqual(a.measurementLabels, b.measurementLabels)
    IN  IF ~baseEqual THEN FALSE
        ELSE IF a.kind = "ramp" /\ b.kind = "ramp"
             THEN /\ NumEq(a.runMm, b.runMm)
                  /\ a.showArrow = b.showArrow
                  /\ a.hasLeftWing = b.hasLeftWing
                  /\ NumEq(a.leftWingSizeMm, b.leftWingSizeMm)
                  /\ a.hasRightWing = b.hasRightWing
                  /\ NumEq(a.rightWingSizeMm, b.rightWingSizeMm)
             ELSE a.kind = "landing" /\ b.kind = "landing"

MergedFields == {"kind", "measurements", "measurementAnchors", "measurementLabels"}
RampOnlyFields ==
    {"runMm", "showArrow", "hasLeftWing", "leftWingSizeMm", "hasRightWing", "rightWingSizeMm"}

\* { ...obj, ...rest, measurements, measurementAnchors, measurementLabels, kind }
\* as a new object at `base`; a merged map is new only when it was patched
Candidate(obj, rest, patch, kind, base) ==
    [f \in DOMAIN obj \cup DOMAIN rest |->
        CASE f = "ref" -> base
          [] f = "kind" -> kind
          [] f = "measurements" -> mergeMeasurements(obj.measurements, patch, base + 1)
          [] f = "measurementLabels" ->
                mergeMeasurementLabels(obj.measurementLabels, patch, base + 2)
          [] f = "measurementAnchors" ->
                mergeMeasurementAnchors(obj.measurementAnchors, patch,
                                        base + 3 + Len(MEASUREMENT_KEYS))
          [] OTHER -> IF f \in DOMAIN rest THEN rest[f] ELSE obj[f]]

applyPatchToRamp(obj, patch, base) ==
    LET rest == [f \in DOMAIN patch \ MergedFields |-> patch[f]]
    IN  normaliseRampObject(Candidate(obj, rest, patch, "ramp", base))

applyPatchToLanding(obj, patch, base) ==
    LET rest == [f \in DOMAIN patch \ (MergedFields \cup RampOnlyFields) |-> patch[f]]
    IN  normaliseLandingObject(Candidate(obj, rest, patch, "landing", base))

\* objects.findIndex((obj) => obj.id === id), 0 for -1
findIndex(objects, id) ==
    IF \E i \in 1..Len(objects) : objects[i].id = id
    THEN CHOOSE i \in 1..Len(objects) :
            /\ objects[i].id = id
            /\ \A j \in 1..(i - 1) : objects[j].id # id
    ELSE 0

\* an update that compares nothing and always builds a new snapshot
updateObjectAlwaysNew(snapshot, id, patch, base) ==
    LET index == findIndex(snapshot.objects, id)
    IN  IF index = 0 THEN snapshot
        ELSE [snapshot EXCEPT
                 !.ref = base, !.objectsRef = base + 1,
                 !.objects[index] =
                     IF @.kind = "ramp" THEN applyPatchToRamp(@, patch, base + 2)
                     ELSE applyPatchToLanding(@, patch, base + 2)]

\* an update without the early return for an unknown id: the spread and the
\* map build a new snapshot and a new objects array
updateObjectRebuildsOnMissing(snapshot, id, patch, base) ==
    LET index == findIndex(snapshot.objects, id)
    IN  IF index = 0 THEN [snapshot EXCEPT !.ref = base, !.objectsRef = base + 1]
        ELSE LET target == snapshot.objects[index]
                 updated == IF target.kind = "ramp"
                            THEN applyPatchToRamp(target, patch, base + 2)
                            ELSE applyPatchToLanding(target, patch, base + 2)
             IN  IF objectsEqual(target, updated) THEN snapshot
                 ELSE [snapshot EXCEPT
                          !.ref = base, !.objectsRef = base + 1,
                          !.objects[index] = updated]

\* The snapshot itself (same identity) when the id is unknown or the patched
\* object equals the target; else a new snapshot with a new objects array
\* holding the updated object.
updateObject(snapshot, id, patch, base) ==
    LET index == findIndex(snapshot.objects, id)
    IN  IF index = 0 THEN snapshot
        ELSE LET target == snapshot.objects[index]
                 updated == IF target.kind = "ramp"
                            THEN applyPatchToRamp(target, patch, base + 2)
                            ELSE applyPatchToLanding(target, patch, base + 2)
             IN  IF objectsEqual(target, updated) THEN snapshot
                 ELSE [snapshot EXCEPT
                          !.ref = base, !.objectsRef = base + 1,
                          !.objects[index] = updated]

\* identities one updateObject call may take
UpdateCells == 2 + ObjCells

-----------------------------------------------------------------------------
(* Values without identities: what deep equality compares *)

StripObject(obj) ==
    [obj EXCEPT
        !.ref = 0,
        !.measurements = [@ EXCEPT !.ref = 0],
        !.measurementLabels =
            [ref |-> 0,
             vals |-> [k \in DOMAIN @.vals |->
                          IF @.vals[k] = Undefined THEN Undefined
                          ELSE [@.vals[k] EXCEPT !.ref = 0]]],
        !.measurementAnchors =
            [ref |-> 0,
             vals |-> [k \in DOMAIN @.vals |-> [@.vals[k] EXCEPT !.ref = 0]]]]

StripSnapshot(s) ==
    [s EXCEPT !.ref = 0, !.objectsRef = 0,
              !.objects = [i \in 1..Len(s.objects) |-> StripObject(s.objects[i])]]

StripSeq(ss) == [i \in 1..Len(ss) |-> StripSnapshot(ss[i])]

StripHistory(h) ==
    [past |-> StripSeq(h.past), present |-> StripSnapshot(h.present),
     future |-> StripSeq(h.future)]

-----------------------------------------------------------------------------
(* SpecHistory: the history module driven directly by a caller.  The caller *)
(* holds one landing and passes, as its n-th commit, a snapshot with the    *)
(* landing n millimetres to the right; a preview (replacePresent) moves it  *)
(* to a negative coordinate, which no commit uses.                          *)

\* a snapshot the caller builds from scratch: new objects throughout
CallerSnapshot(xMm, base) ==
    [ref |-> base, objectsRef |-> base + 1,
     objects |-> <<newLandingAt("obj-1", xMm, 0, base + 2)>>,
     selectedId |-> "obj-1",
     snapToGrid |-> FALSE, snapToObjects |-> FALSE, snapIncrementMm |-> 1]

CallerCells == 2 + ObjCells

PreviewXs == {Q(-1), Q(-2)}

\* no gesture has run
NoGesture ==
    [kind |-> "none", phase |-> "idle", objectId |-> Null, moves |-> 0,
     applied |-> 0, commits |-> 0, replaces |-> 0, commitMove |-> 0,
     commitApplied |-> 0, earlyCommits |-> 0,
     foreign |-> FALSE, start |-> NoSession]

\* the interface right after the components mount
\* no direct call of a pure function yet
NoPureCall == [called |-> FALSE]

\* the snapshot the save effect captures: the tool and the fields of
\* present, the objects array by reference (the model has no 3D mode)
ProjectOf(snapshot, tool) ==
    [activeTool |-> tool, objectsRef |-> snapshot.objectsRef, objects |-> snapshot.objects,
     snapToGrid |-> snapshot.snapToGrid, snapToObjects |-> snapshot.snapToObjects,
     snapIncrementMm |-> snapshot.snapIncrementMm, selectedId |-> snapshot.selectedId]

\* what JSON.stringify(cloneProject(project)) keeps: the values
Serialised(project) ==
    [project EXCEPT !.objectsRef = 0,
                    !.objects = [i \in 1..Len(project.objects) |->
                                    StripObject(project.objects[i])]]

\* the id window.setTimeout gives the timer an event schedules: ids never
\* repeat
TimerId(step) == step

UiInit ==
    /\ activeTool = "none"
    /\ resizeState = NoSession
    /\ resizeCommittedRef = FALSE
    /\ draggingId = Null
    /\ dragNode = Null
    /\ gesture = NoGesture
    /\ pureCall = NoPureCall
    /\ spacePanning = FALSE
    /\ isPanningRef = FALSE
    /\ camera = [txPx |-> 0, tyPx |-> 0]
    /\ mounted = TRUE
    /\ saveTimerRef = TimerId(0)
    /\ timers = {[id |-> TimerId(0), snapshot |-> ProjectOf(history.present, "none")]}
    /\ storage = Serialised(ProjectOf(history.present, "none"))
    /\ lastWrite = Null

HInit ==
    /\ lastArg = CallerSnapshot(0, 1)
    /\ history = createHistoryState(lastArg, 1 + CallerCells)
    /\ nextRef = 1 + 2 * CallerCells
    /\ lastEvent = "createHistoryState"
    /\ lastCall = "create"
    /\ prevCall = "none"
    /\ commits = 0
    /\ detours = 0
    /\ steps = 0
    /\ made = 0
    /\ UiInit

CommitCall ==
    /\ lastArg' = CallerSnapshot(Q(commits + 1), nextRef)
    /\ history' = commitSnapshot(history, lastArg', nextRef + CallerCells)
    /\ nextRef' = nextRef + CallerCells + CommitCells(history, lastArg')
    /\ lastEvent' = "commitSnapshot"
    /\ lastCall' = "commit"
    /\ prevCall' = lastCall
    /\ commits' = commits + 1
    /\ steps' = steps + 1
    /\ UNCHANGED <<detours, pureCall, uiVars>>

ReplaceCall ==
    /\ \E x \in PreviewXs : lastArg' = CallerSnapshot(x, nextRef)
    /\ history' = replacePresent(history, lastArg', nextRef + CallerCells)
    /\ nextRef' = nextRef + 2 * CallerCells
    /\ lastEvent' = "replacePresent"
    /\ lastCall' = "replace"
    /\ prevCall' = lastCall
    /\ detours' = detours + 1
    /\ UNCHANGED pureCall
    /\ steps' = steps + 1
    /\ UNCHANGED <<commits, uiVars>>

UndoCall ==
    /\ history' = undo(history, nextRef)
    /\ nextRef' = nextRef + UndoCells(history)
    /\ lastEvent' = "undo"
    /\ lastCall' = "undo"
    /\ prevCall' = lastCall
    /\ detours' = detours + 1
    /\ UNCHANGED pureCall
    /\ steps' = steps + 1
    /\ UNCHANGED <<lastArg, commits, uiVars>>

RedoCall ==
    /\ history' = redo(history, nextRef)
    /\ nextRef' = nextRef + RedoCells(history)
    /\ lastEvent' = "redo"
    /\ lastCall' = "redo"
    /\ prevCall' = lastCall
    /\ detours' = detours + 1
    /\ UNCHANGED pureCall
    /\ steps' = steps + 1
    /\ UNCHANGED <<lastArg, commits, uiVars>>

\* SpecHistory: every interleaving of at most MaxSteps calls
HCommit == steps < MaxSteps /\ CommitCall
HReplace == steps < MaxSteps /\ ReplaceCall
HUndo == steps < MaxSteps /\ UndoCall
HRedo == steps < MaxSteps /\ RedoCall

HNext == HCommit \/ HReplace \/ HUndo \/ HRedo

SpecHistory == HInit /\ [][HNext]_vars

\* SpecBound: a run of commits long enough to fill `past`; once DetourFrom
\* commits have been made the caller may also undo, redo and preview
DetourFrom == MAX_PAST - 2

BCommit == commits < MaxRun /\ CommitCall
BReplace == commits >= DetourFrom /\ detours < MaxDetours /\ ReplaceCall
BUndo == commits >= DetourFrom /\ detours < MaxDetours /\ UndoCall
BRedo == commits >= DetourFrom /\ detours < MaxDetours /\ RedoCall

BNext == BCommit \/ BReplace \/ BUndo \/ BRedo

SpecBound == HInit /\ [][BNext]_vars

-----------------------------------------------------------------------------
(* app/AppShell.tsx *)

\* an applySnapshot without the identity test
applySnapshotAlwaysApplies(h, updated, commitChange, base) ==
    IF commitChange THEN commitSnapshot(h, updated, base)
    ELSE replacePresent(h, updated, base)

\* an applySnapshot that never records an undo step
applySnapshotOnlyReplaces(h, updated, commitChange, base) ==
    IF updated.ref = h.present.ref THEN h ELSE replacePresent(h, updated, base)

\* applySnapshot's state update, given what the updater returned: nothing
\* when that is the present itself, else a commit or a replace
applySnapshot(h, updated, commitChange, base) ==
    IF updated.ref = h.present.ref THEN h
    ELSE IF commitChange THEN commitSnapshot(h, updated, base)
         ELSE replacePresent(h, updated, base)

\* The history variables after an event whose handler calls applySnapshot
\* once; the updater took `cells` identities from nextRef on to build
\* `updated`.
Apply(event, updated, commitChange, cells) ==
    LET same == updated.ref = history.present.ref
    IN  /\ history' = applySnapshot(history, updated, commitChange, nextRef + cells)
        /\ lastArg' = IF same THEN lastArg ELSE updated
        /\ lastCall' = IF same THEN "none" ELSE IF commitChange THEN "commit" ELSE "replace"
        /\ prevCall' = lastCall
        /\ lastEvent' = event
        /\ nextRef' = nextRef + cells
                        + (IF same THEN 0
                           ELSE IF commitChange THEN CommitCells(history, updated)
                                ELSE SnapCells(updated))
        /\ commits' = IF ~same /\ commitChange THEN commits + 1 ELSE commits
        /\ detours' = detours
        /\ UNCHANGED pureCall
        /\ steps' = steps + 1

\* The history variables after an event whose handler calls no history
\* function
NoApply(event) ==
    /\ lastEvent' = event
    /\ lastCall' = "none"
    /\ prevCall' = lastCall
    /\ steps' = steps + 1
    /\ UNCHANGED <<history, lastArg, nextRef, commits, detours, pureCall>>

\* Canvas2D's effect on [selectedId]: a changed selection drops the resize
\* session (it runs with the render that follows the event)
SelectedIdEffect(nextResizeState, nextCommitted) ==
    LET changed == history'.present.selectedId # history.present.selectedId
    IN  /\ resizeState' = IF changed THEN NoSession ELSE nextResizeState
        /\ resizeCommittedRef' = IF changed THEN FALSE ELSE nextCommitted

\* bookkeeping after an event that is not a step of a gesture: a history
\* change by it is foreign to the gesture that runs or ran last, a dropped
\* session ends it
GestureAfterOther ==
    LET g == IF gesture.kind # "none" /\ history' # history
             THEN [gesture EXCEPT !.foreign = TRUE] ELSE gesture
    IN  gesture' = IF \/ g.kind = "resize" /\ g.phase = "active" /\ resizeState' = NoSession
                      \/ g.kind = "drag" /\ g.phase = "active" /\ dragNode' = Null
                   THEN [g EXCEPT !.phase = "aborted"] ELSE g

\* a save effect that schedules a write without clearing the pending one
SaveEffectKeepsTimer ==
    /\ mounted
    /\ IF ProjectOf(history'.present, activeTool') # ProjectOf(history.present, activeTool)
       THEN /\ timers' = timers \cup {[id |-> TimerId(steps'),
                                       snapshot |-> ProjectOf(history'.present, activeTool')]}
            /\ saveTimerRef' = TimerId(steps')
       ELSE UNCHANGED <<saveTimerRef, timers>>
    /\ UNCHANGED <<mounted, storage, lastWrite>>

\* AppShell's save effect, which runs with the render that follows an event
\* when one of its dependencies (the tool, the fields of present) changed:
\* clear the pending timer, capture the snapshot, schedule the write
SaveEffect ==
    /\ mounted
    /\ IF ProjectOf(history'.present, activeTool') # ProjectOf(history.present, activeTool)
       THEN /\ timers' = {t \in timers : t.id # saveTimerRef}
                            \cup {[id |-> TimerId(steps'),
                                   snapshot |-> ProjectOf(history'.present, activeTool')]}
            /\ saveTimerRef' = TimerId(steps')
       ELSE UNCHANGED <<saveTimerRef, timers>>
    /\ UNCHANGED <<mounted, storage, lastWrite>>

\* what every AppShell event leaves to the canvas
CanvasAfterOther ==
    /\ SelectedIdEffect(resizeState, resizeCommittedRef)
    /\ draggingId' = draggingId
    /\ dragNode' = IF dragNode # Null /\ findIndex(history'.present.objects, dragNode) = 0
                   THEN Null ELSE dragNode
    /\ GestureAfterOther
    /\ UNCHANGED panVars
    /\ SaveEffect

present == history.present

HasObject(objects, id) == findIndex(objects, id) # 0
ObjectById(objects, id) == objects[findIndex(objects, id)]

\* SnapIncrementMm is 1 | 10 | 100 | 1000; the increments the toolbox is
\* asked for here
SnapIncrements == {1, 100}

handleUndo ==
    /\ steps < MaxEvents
    /\ history' = (IF canUndo(history) THEN undo(history, nextRef) ELSE history)
    /\ nextRef' = nextRef + UndoCells(history)
    /\ lastEvent' = "handleUndo"
    /\ lastCall' = (IF canUndo(history) THEN "undo" ELSE "none")
    /\ prevCall' = lastCall
    /\ steps' = steps + 1
    /\ UNCHANGED <<lastArg, commits, detours, pureCall, activeTool, made>>
    /\ CanvasAfterOther

handleRedo ==
    /\ steps < MaxEvents
    /\ history' = (IF canRedo(history) THEN redo(history, nextRef) ELSE history)
    /\ nextRef' = nextRef + RedoCells(history)
    /\ lastEvent' = "handleRedo"
    /\ lastCall' = (IF canRedo(history) THEN "redo" ELSE "none")
    /\ prevCall' = lastCall
    /\ steps' = steps + 1
    /\ UNCHANGED <<lastArg, commits, detours, pureCall, activeTool, made>>
    /\ CanvasAfterOther

handleToggleSnapToGrid ==
    /\ steps < MaxEvents
    /\ Apply("handleToggleSnapToGrid",
             [present EXCEPT !.ref = nextRef, !.snapToGrid = ~@], TRUE, 1)
    /\ UNCHANGED <<activeTool, made>>
    /\ CanvasAfterOther

handleToggleSnapToObjects ==
    /\ steps < MaxEvents
    /\ Apply("handleToggleSnapToObjects",
             [present EXCEPT !.ref = nextRef, !.snapToObjects = ~@], TRUE, 1)
    /\ UNCHANGED <<activeTool, made>>
    /\ CanvasAfterOther

handleSetSnapIncrement ==
    /\ steps < MaxEvents
    /\ \E stepMm \in SnapIncrements :
          Apply("handleSetSnapIncrement",
                [present EXCEPT !.ref = nextRef, !.snapIncrementMm = stepMm], TRUE, 1)
    /\ UNCHANGED <<activeTool, made>>
    /\ CanvasAfterOther

\* Toolbox buttons, the keys r / p / d and the context menu pick another
\* tool; Escape sets "none" whatever the tool is
Tools == {"none", "ramp", "landing", "delete"}

setActiveTool ==
    /\ steps < MaxEvents
    /\ \E tool \in Tools :
          /\ tool # activeTool \/ tool = "none"
          /\ activeTool' = tool
          /\ NoApply(IF tool = "none" THEN "keyEscape" ELSE "setActiveTool")
    /\ UNCHANGED made
    /\ CanvasAfterOther

\* the updater of handleSelect
SelectUpdater(snapshot, id, base) ==
    IF snapshot.selectedId = id THEN snapshot
    ELSE [snapshot EXCEPT !.ref = base, !.selectedId = id]

\* a delete updater that leaves selectedId as it is
DeleteUpdaterKeepsSelection(snapshot, id, base) ==
    LET nextObjects == SelectSeq(snapshot.objects, LAMBDA o : o.id # id)
    IN  IF Len(nextObjects) = Len(snapshot.objects) THEN snapshot
        ELSE [snapshot EXCEPT
                 !.ref = base, !.objectsRef = base + 1, !.objects = nextObjects]

\* the updater of handleDeleteObject
DeleteUpdater(snapshot, id, base) ==
    LET nextObjects == SelectSeq(snapshot.objects, LAMBDA o : o.id # id)
    IN  IF Len(nextObjects) = Len(snapshot.objects) THEN snapshot
        ELSE [snapshot EXCEPT
                 !.ref = base, !.objectsRef = base + 1, !.objects = nextObjects,
                 !.selectedId = IF snapshot.selectedId = id THEN Null ELSE @]

\* the updater of handleClearSelection
ClearSelectionUpdater(snapshot, base) ==
    IF snapshot.selectedId = Null THEN snapshot
    ELSE [snapshot EXCEPT !.ref = base, !.selectedId = Null]

\* Math.round(rotationDeg / 90) * 90
RoundToQuarterTurn(deg) == ((2 * deg + Q(90)) \div (2 * Q(90))) * Q(90)

\* the updater of handleRotateSelected
RotateUpdater(snapshot, delta, base) ==
    IF snapshot.selectedId = Null \/ ~HasObject(snapshot.objects, snapshot.selectedId)
    THEN snapshot
    ELSE LET selected == ObjectById(snapshot.objects, snapshot.selectedId)
             hasSnap == snapshot.snapToGrid \/ snapshot.snapToObjects
             startingRotation == IF hasSnap THEN RoundToQuarterTurn(selected.rotationDeg)
                                 ELSE selected.rotationDeg
         IN  IF selected.locked THEN snapshot
             ELSE updateObject(snapshot, selected.id,
                               [rotationDeg |-> startingRotation + delta], base)

\* the updater of the arrow keys
NudgeUpdater(snapshot, key, base) ==
    IF snapshot.selectedId = Null \/ ~HasObject(snapshot.objects, snapshot.selectedId)
    THEN snapshot
    ELSE LET selected == ObjectById(snapshot.objects, snapshot.selectedId)
             bbox == getObjectBoundingBoxMm(selected)
             currentTopLeft == topLeftFromCenterMm(ObjCentre(selected), bbox)
             nudgeStep == IF snapshot.snapToGrid THEN snapshot.snapIncrementMm ELSE 1
             offset == Point(IF key = "ArrowLeft" THEN -Q(nudgeStep)
                             ELSE IF key = "ArrowRight" THEN Q(nudgeStep) ELSE 0,
                             IF key = "ArrowUp" THEN -Q(nudgeStep)
                             ELSE IF key = "ArrowDown" THEN Q(nudgeStep) ELSE 0)
             snappedTopLeft == Point(snapMm(currentTopLeft.xMm + offset.xMm, nudgeStep),
                                     snapMm(currentTopLeft.yMm + offset.yMm, nudgeStep))
             nextCenter == centerFromTopLeftMm(snappedTopLeft, bbox)
         IN  IF selected.locked THEN snapshot
             ELSE updateObject(snapshot, selected.id,
                               [xMm |-> nextCenter.xMm, yMm |-> nextCenter.yMm], base)

\* handleUpdateObject(id, patch, commitChange), as the inspector and the
\* canvas call it
handleUpdateObject(event, id, patch, commitChange) ==
    Apply(event, updateObject(present, id, patch, nextRef), commitChange, UpdateCells)

\* values typed into an inspector field and committed (blur or Enter)
InspectorFields == {"lengthMm", "rotationDeg"}
InspectorValues(key) ==
    IF key = "rotationDeg" THEN {Q(0), Q(450)} ELSE {Q(1200), Q(1500)}

\* Inspector.commitValue for a parsed number
InspectorCommitValue ==
    /\ steps < MaxEvents
    /\ present.selectedId # Null
    /\ HasObject(present.objects, present.selectedId)
    /\ \E key \in InspectorFields : \E parsed \in InspectorValues(key) :
          LET selected == ObjectById(present.objects, present.selectedId)
              patch == IF key = "lengthMm" /\ selected.kind = "ramp"
                       THEN [lengthMm |-> parsed, runMm |-> parsed]
                       ELSE [f \in {key} |-> parsed]
          IN  handleUpdateObject("inspectorCommitValue", selected.id, patch, TRUE)
    /\ UNCHANGED <<activeTool, made>>
    /\ CanvasAfterOther

\* Inspector.handleToggleLock
InspectorToggleLock ==
    /\ steps < MaxEvents
    /\ present.selectedId # Null
    /\ HasObject(present.objects, present.selectedId)
    /\ LET selected == ObjectById(present.objects, present.selectedId)
       IN  handleUpdateObject("inspectorToggleLock", selected.id,
                              [locked |-> ~selected.locked], TRUE)
    /\ UNCHANGED <<activeTool, made>>
    /\ CanvasAfterOther

QuickRotations == {Q(90), Q(-90)}

\* Inspector.handleQuickRotate -> handleRotateSelected
handleRotateSelected ==
    /\ steps < MaxEvents
    /\ present.selectedId # Null
    /\ HasObject(present.objects, present.selectedId)
    /\ ~ObjectById(present.objects, present.selectedId).locked
    /\ \E delta \in QuickRotations :
          Apply("handleRotateSelected", RotateUpdater(present, delta, nextRef), TRUE,
                UpdateCells)
    /\ UNCHANGED <<activeTool, made>>
    /\ CanvasAfterOther

\* the Backspace key: delete the selection, drop the tool
KeyBackspace ==
    /\ steps < MaxEvents
    /\ IF present.selectedId # Null
       THEN Apply("keyBackspace", DeleteUpdater(present, present.selectedId, nextRef), TRUE, 2)
       ELSE NoApply("keyBackspace")
    /\ activeTool' = "none"
    /\ UNCHANGED made
    /\ CanvasAfterOther

\* the arrow keys pressed here (ArrowUp and ArrowRight mirror them)
ArrowKeys == {"ArrowDown", "ArrowLeft"}

KeyArrow ==
    /\ steps < MaxEvents
    /\ \E key \in ArrowKeys :
          Apply("keyArrow", NudgeUpdater(present, key, nextRef), TRUE, UpdateCells)
    /\ UNCHANGED <<activeTool, made>>
    /\ CanvasAfterOther

\* the updater of handlePlaceAt for a new object `obj`
PlaceUpdater(snapshot, obj, base) ==
    [snapshot EXCEPT
        !.ref = base, !.objectsRef = base + 1,
        !.objects = Append(@, obj), !.selectedId = obj.id]

\* the n-th id makeId produces (ids never repeat)
makeId(n) == "obj-" \o ToString(n)

\* number of objects the model lets a project hold
MaxObjects == 2

\* how far, in px, clampCamera lets the camera move from the centred start
\* on either axis (a matter of the viewport's size and of the zoom)
PanRangePx == 360

-----------------------------------------------------------------------------
(* ui/canvas/Canvas2D.tsx: pointer handlers.  A pointer-down needs the     *)
(* button up: no resize session and no drag is then in progress.           *)

WORKSPACE_SIZE_MM == 40000
HALF_WORKSPACE_MM == WORKSPACE_SIZE_MM \div 2

clamp(value, min, max) == MathMin(max, MathMax(min, value))

getPlacementCentreFromAnchor(tool, anchor, snap) ==
    LET bbox == getDefaultBoundingBoxMm(tool)
        stepMm == IF snap.snapToGrid THEN snap.snapIncrementMm ELSE MIN_INCREMENT_MM
        snappedTopLeft == Point(snapMm(anchor.xMm, stepMm), snapMm(anchor.yMm, stepMm))
    IN  centerFromTopLeftMm(snappedTopLeft, bbox)

PointerFree == resizeState = NoSession /\ dragNode = Null

\* positions of a click on the empty stage
StagePoints == {Point(Q(30000), Q(-555) + 9)}

\* handleStageMouseDown on the empty stage with the left button, with a
\* placing tool: handlePlaceAt
StageMouseDownPlace ==
    /\ steps < MaxEvents
    /\ PointerFree
    /\ ~spacePanning
    /\ activeTool \in {"ramp", "landing"}
    /\ Len(present.objects) < MaxObjects
    /\ \E pos \in StagePoints :
          LET clampedAnchor == Point(clamp(pos.xMm, -Q(HALF_WORKSPACE_MM), Q(HALF_WORKSPACE_MM)),
                                     clamp(pos.yMm, -Q(HALF_WORKSPACE_MM), Q(HALF_WORKSPACE_MM)))
              centre == getPlacementCentreFromAnchor(activeTool, clampedAnchor, present)
              obj == IF activeTool = "ramp"
                     THEN newRampAt(makeId(made + 1), centre.xMm, centre.yMm, nextRef)
                     ELSE newLandingAt(makeId(made + 1), centre.xMm, centre.yMm, nextRef)
          IN  Apply("handlePlaceAt", PlaceUpdater(present, obj, nextRef + ObjCells), TRUE,
                    ObjCells + 2)
    /\ made' = made + 1
    /\ activeTool' = "none"
    /\ CanvasAfterOther

\* handleStageMouseDown on the empty stage with the left button, without a
\* placing tool: clear the selection, drop the delete tool
StageMouseDownClear ==
    /\ steps < MaxEvents
    /\ PointerFree
    /\ ~spacePanning
    /\ activeTool \notin {"ramp", "landing"}
    /\ Apply("handleClearSelection", ClearSelectionUpdater(present, nextRef), FALSE, 1)
    /\ activeTool' = "none"
    /\ UNCHANGED made
    /\ CanvasAfterOther

\* a handleSelect that records an undo step
handleSelectCommits(id) ==
    Apply("handleSelect", SelectUpdater(present, id, nextRef), TRUE, 1)

\* AppShell.handleSelect: applySnapshot(updater, false)
handleSelect(id) ==
    Apply("handleSelect", SelectUpdater(present, id, nextRef), FALSE, 1)

\* handleObjectPointerDown without the delete tool: select
ObjectPointerDownSelect ==
    /\ steps < MaxEvents
    /\ PointerFree
    /\ ~spacePanning
    /\ activeTool # "delete"
    /\ \E i \in 1..Len(present.objects) : handleSelect(present.objects[i].id)
    /\ UNCHANGED <<activeTool, made>>
    /\ CanvasAfterOther

\* handleObjectPointerDown with the delete tool: select, then delete; the
\* two state updates run in order
ObjectPointerDownDelete ==
    /\ steps < MaxEvents
    /\ PointerFree
    /\ ~spacePanning
    /\ activeTool = "delete"
    /\ \E i \in 1..Len(present.objects) :
          LET id == present.objects[i].id
              selectedSnap == SelectUpdater(present, id, nextRef)
              selectCells == IF selectedSnap.ref = present.ref THEN 1
                             ELSE 1 + SnapCells(selectedSnap)
              afterSelect == applySnapshot(history, selectedSnap, FALSE, nextRef + 1)
              base == nextRef + selectCells
              deleted == DeleteUpdater(afterSelect.present, id, base)
          IN  /\ history' = applySnapshot(afterSelect, deleted, TRUE, base + 2)
              /\ lastArg' = deleted
              /\ nextRef' = base + 2 + CommitCells(afterSelect, deleted)
    /\ lastEvent' = "handleDeleteObject"
    /\ lastCall' = "commit"
    /\ prevCall' = lastCall
    /\ commits' = commits + 1
    /\ steps' = steps + 1
    /\ activeTool' = "none"
    /\ UNCHANGED <<detours, pureCall, made>>
    /\ CanvasAfterOther

\* a resize that does not hold the pointer on the handle's side of the anchor
enforceDirectionalMinOff(value, dir) == value

enforceDirectionalMin(value, dir) ==
    IF dir = 1 THEN MathMax(value, Q(MIN_OBJECT_SIZE_MM))
    ELSE MathMin(value, -Q(MIN_OBJECT_SIZE_MM))

\* handleResizeDrag, step by step.  A world point in the session's frame
\* (origin at the anchor, axes along the object): localX / localY and
\* snappedLocalX / snappedLocalY
ToLocal(session, pt) ==
    Point((pt.xMm - session.anchor.xMm) * CosDeg(session.rotationDeg)
            + (pt.yMm - session.anchor.yMm) * SinDeg(session.rotationDeg),
          (-(pt.xMm - session.anchor.xMm)) * SinDeg(session.rotationDeg)
            + (pt.yMm - session.anchor.yMm) * CosDeg(session.rotationDeg))

\* and back: movingCornerWorld and centreWorld
FromLocal(session, pt) ==
    Point(session.anchor.xMm + pt.xMm * CosDeg(session.rotationDeg)
                             - pt.yMm * SinDeg(session.rotationDeg),
          session.anchor.yMm + pt.xMm * SinDeg(session.rotationDeg)
                             + pt.yMm * CosDeg(session.rotationDeg))

\* constrainedLocalX / Y and snappedDirectionalX / Y
Constrained(session, local) ==
    Point(enforceDirectionalMin(local.xMm, session.dirX),
          enforceDirectionalMin(local.yMm, session.dirY))

resizeStepMm(snap) == IF snap.snapToGrid THEN snap.snapIncrementMm ELSE MIN_INCREMENT_MM

\* movingCornerWorld for the constrained local pointer position
MovingCorner(session, constrained, stepMm) ==
    FromLocal(session, Point(session.dirX * snapMm(Abs(constrained.xMm), stepMm),
                             session.dirY * snapMm(Abs(constrained.yMm), stepMm)))

\* bestX / bestY of the moving corner
CornerBest(coord, snap, id, axis) ==
    pickBestAxisCandidate(
        IF snap.snapToObjects
        THEN AxisCandidates(<<coord>>, <<coord>>, OtherObjects(snap.objects, id), axis)
        ELSE <<>>)

\* nextLengthMm / nextWidthMm from the constrained local snapped corner
NextSize(directional, bestX, bestY, stepMm) ==
    [lengthMm |-> MathMax(Q(MIN_OBJECT_SIZE_MM),
                          IF bestX.found THEN Abs(directional.xMm)
                          ELSE snapMm(Abs(directional.xMm), stepMm)),
     widthMm |-> MathMax(Q(MIN_OBJECT_SIZE_MM),
                         IF bestY.found THEN Abs(directional.yMm)
                         ELSE snapMm(Abs(directional.yMm), stepMm))]

\* a resize about the centre: the patch carries the new size only
PatchForSizeAboutCentre(kind, session, size) ==
    IF kind = "ramp"
    THEN [lengthMm |-> size.lengthMm, runMm |-> size.lengthMm, widthMm |-> size.widthMm]
    ELSE [lengthMm |-> size.lengthMm, widthMm |-> size.widthMm]

\* the patch: the new size and the centre that keeps the anchor in place
PatchForSize(kind, session, size) ==
    LET centreWorld == FromLocal(session, Point(session.dirX * Half(size.lengthMm),
                                                session.dirY * Half(size.widthMm)))
    IN  IF kind = "ramp"
        THEN [xMm |-> centreWorld.xMm, yMm |-> centreWorld.yMm,
              lengthMm |-> size.lengthMm, runMm |-> size.lengthMm, widthMm |-> size.widthMm]
        ELSE [xMm |-> centreWorld.xMm, yMm |-> centreWorld.yMm,
              lengthMm |-> size.lengthMm, widthMm |-> size.widthMm]

PatchForBest(obj, session, snap, corner, bestX, bestY) ==
    PatchForSize(obj.kind, session,
        NextSize(Constrained(session,
                     ToLocal(session, Point(corner.xMm + bestX.delta, corner.yMm + bestY.delta))),
                 bestX, bestY, resizeStepMm(snap)))

PatchForCorner(obj, session, snap, corner) ==
    PatchForBest(obj, session, snap, corner,
                 CornerBest(corner.xMm, snap, obj.id, "x"),
                 CornerBest(corner.yMm, snap, obj.id, "y"))

\* the patch handleResizeDrag builds for the pointer at `pointerMm`
ResizePatch(obj, session, pointerMm, snap) ==
    PatchForCorner(obj, session, snap,
        MovingCorner(session, Constrained(session, ToLocal(session, pointerMm)),
                     resizeStepMm(snap)))

\* bookkeeping of a gesture that starts now
NewGesture(kind, id) ==
    [kind |-> kind, phase |-> "active", objectId |-> id, moves |-> 0,
     applied |-> 0, commits |-> 0, replaces |-> 0, commitMove |-> 0,
     commitApplied |-> 0, earlyCommits |-> 0,
     foreign |-> FALSE, start |-> history]

\* the handles grabbed here, of the four of handleConfig
ResizeCorners == {"bottomRight", "topLeft"}

\* the mouse buttons: left and right
LeftButton == 0
RightButton == 2

\* handleResizePointerDown on one of the handles `corners` of the selected
\* object, with one of `buttons`.  The handler looks at no button; the
\* mousedown of the same press reaches handleStageMouseDown, which starts a
\* pan for the right button and does nothing else (the target is no stage)
ResizePointerDownAt(corners, buttons) ==
    /\ steps < MaxEvents
    /\ PointerFree
    /\ ~spacePanning
    /\ \E button \in buttons : isPanningRef' = (isPanningRef \/ button = RightButton)
    /\ UNCHANGED <<spacePanning, camera>>
    /\ present.selectedId # Null
    /\ HasObject(present.objects, present.selectedId)
    /\ activeTool # "delete"
    /\ LET obj == ObjectById(present.objects, present.selectedId)
       IN  /\ ~obj.locked
           /\ \E corner \in corners :
                 resizeState' =
                     [objectId |-> obj.id, corner |-> corner,
                      anchor |-> getHandleWorldPoint(obj, handleConfig[corner].anchor),
                      rotationDeg |-> obj.rotationDeg,
                      dirX |-> handleConfig[corner].dirX,
                      dirY |-> handleConfig[corner].dirY]
           /\ gesture' = NewGesture("resize", obj.id)
    /\ resizeCommittedRef' = FALSE
    /\ NoApply("handleResizePointerDown")
    /\ UNCHANGED <<activeTool, made, draggingId, dragNode>>
    /\ SaveEffect

ResizePointerDown == ResizePointerDownAt(ResizeCorners, {LeftButton})

\* a resize that commits on every pointer-move
shouldCommitAlways(committed) == TRUE

\* handleResizeDrag: const shouldCommit = !resizeCommittedRef.current
shouldCommit(committed) == ~committed

\* positions of the pointer while a button is held
PointerPoints ==
    {Point(Q(600), Q(600)), Point(Q(705) + 5, Q(650)), Point(Q(-3000), Q(20))}

\* handleResizeDrag goes on past `if (!obj || obj.locked) return`
ResizeApplies ==
    /\ HasObject(present.objects, resizeState.objectId)
    /\ ~ObjectById(present.objects, resizeState.objectId).locked

\* clampCamera at the fixed viewport and scale: the translation stays
\* within PanRangePx of the centred start on both axes
clampCamera(cam) ==
    [txPx |-> clamp(cam.txPx, -PanRangePx, PanRangePx),
     tyPx |-> clamp(cam.tyPx, -PanRangePx, PanRangePx)]

\* pointer displacements (dx, dy) in px between two pointer-moves
PanDeltas == {[dx |-> 200, dy |-> 0], [dx |-> -50, dy |-> 120]}

\* the pan branch of handleStagePointerMove
PanCamera ==
    IF isPanningRef
    THEN \E d \in PanDeltas :
            camera' = clampCamera([txPx |-> camera.txPx + d.dx, tyPx |-> camera.tyPx + d.dy])
    ELSE camera' = camera

\* handleStagePointerMove during a resize session: handleResizeDrag with
\* the pointer at one of `points`, then the pan branch
StagePointerMoveResizeAt(points) ==
    /\ steps < MaxEvents
    /\ resizeState # NoSession
    /\ PanCamera
    /\ UNCHANGED <<spacePanning, isPanningRef>>
    /\ \E pos \in points :
          IF ResizeApplies
          THEN LET obj == ObjectById(present.objects, resizeState.objectId)
                   patch == ResizePatch(obj, resizeState, pos, present)
               IN  /\ handleUpdateObject("handleResizeDrag", obj.id, patch,
                                         shouldCommit(resizeCommittedRef))
                   /\ resizeCommittedRef' = TRUE
          ELSE /\ NoApply("handleResizeDrag")
               /\ resizeCommittedRef' = resizeCommittedRef
    /\ gesture' = [gesture EXCEPT
                      !.moves = @ + 1,
                      !.applied = IF ResizeApplies THEN @ + 1 ELSE @,
                      !.commitApplied = IF lastCall' = "commit" THEN gesture.applied + 1 ELSE @,
                      !.commits = IF lastCall' = "commit" THEN @ + 1 ELSE @,
                      !.earlyCommits = IF lastCall' = "commit" THEN @ + 1 ELSE @,
                      !.commitMove = IF lastCall' = "commit" THEN gesture.moves + 1 ELSE @,
                      !.replaces = IF lastCall' = "replace" THEN @ + 1 ELSE @]
    /\ UNCHANGED <<activeTool, made, resizeState, draggingId, dragNode>>
    /\ SaveEffect

StagePointerMoveResize == StagePointerMoveResizeAt(PointerPoints)

\* handleStagePointerMove while the canvas library drags an object: the
\* node follows dragBoundFunc, no handler touches the history
StagePointerMoveDrag ==
    /\ steps < MaxEvents
    /\ resizeState = NoSession
    /\ dragNode # Null
    /\ PanCamera
    /\ UNCHANGED <<spacePanning, isPanningRef>>
    /\ NoApply("handleStagePointerMove")
    /\ gesture' = [gesture EXCEPT !.moves = @ + 1]
    /\ UNCHANGED <<activeTool, made, resizeState, resizeCommittedRef, draggingId, dragNode>>
    /\ SaveEffect

\* handleStageMouseUp
StageMouseUp ==
    /\ steps < MaxEvents
    /\ resizeState' = NoSession
    /\ resizeCommittedRef' = FALSE
    /\ draggingId' = Null
    /\ NoApply("handleStageMouseUp")
    /\ isPanningRef' = FALSE
    /\ UNCHANGED <<spacePanning, camera>>
    /\ gesture' = IF gesture.kind = "resize" /\ gesture.phase = "active"
                  THEN [gesture EXCEPT !.phase = "released"] ELSE gesture
    /\ UNCHANGED <<activeTool, made, dragNode>>
    /\ SaveEffect

\* handleStageLeave
StageLeave ==
    /\ steps < MaxEvents
    /\ resizeState' = NoSession
    /\ resizeCommittedRef' = FALSE
    /\ draggingId' = Null
    /\ NoApply("handleStageLeave")
    /\ isPanningRef' = FALSE
    /\ UNCHANGED <<spacePanning, camera>>
    /\ gesture' = IF gesture.kind = "resize" /\ gesture.phase = "active"
                  THEN [gesture EXCEPT !.phase = "cancelled"] ELSE gesture
    /\ UNCHANGED <<activeTool, made, dragNode>>
    /\ SaveEffect

\* the keydown listener of Canvas2D: the space bar goes down while no text
\* field has the focus
KeySpaceDown ==
    /\ steps < MaxEvents
    /\ ~spacePanning
    /\ spacePanning' = TRUE
    /\ NoApply("keySpaceDown")
    /\ UNCHANGED <<activeTool, made, resizeState, resizeCommittedRef, draggingId, dragNode,
                   gesture, isPanningRef, camera>>
    /\ SaveEffect

\* the keyup listener of Canvas2D
KeySpaceUp ==
    /\ steps < MaxEvents
    /\ spacePanning
    /\ spacePanning' = FALSE
    /\ NoApply("keySpaceUp")
    /\ UNCHANGED <<activeTool, made, resizeState, resizeCommittedRef, draggingId, dragNode,
                   gesture, isPanningRef, camera>>
    /\ SaveEffect

\* handleStageMouseDown when canPan holds: the right button (whatever else
\* the pointer is doing), or the left button (pressed with no gesture under
\* way) while the space bar is held
StageMouseDownPan ==
    /\ steps < MaxEvents
    /\ \E button \in {LeftButton, RightButton} :
          \/ button = RightButton
          \/ button = LeftButton /\ spacePanning /\ PointerFree
    /\ isPanningRef' = TRUE
    /\ NoApply("handleStageMouseDown")
    /\ UNCHANGED <<activeTool, made, resizeState, resizeCommittedRef, draggingId, dragNode,
                   gesture, spacePanning, camera>>
    /\ SaveEffect

\* handleStagePointerMove with neither a resize session nor a drag: the pan
\* branch alone
StagePointerMovePan ==
    /\ steps < MaxEvents
    /\ PointerFree
    /\ isPanningRef
    /\ PanCamera
    /\ NoApply("handleStagePointerMove")
    /\ UNCHANGED <<activeTool, made, resizeState, resizeCommittedRef, draggingId, dragNode,
                   gesture, spacePanning, isPanningRef>>
    /\ SaveEffect

\* handleObjectDragStart: the selected, unlocked object starts to follow the
\* pointer
ObjectDragStart ==
    /\ steps < MaxEvents
    /\ PointerFree
    /\ present.selectedId # Null
    /\ HasObject(present.objects, present.selectedId)
    /\ ~ObjectById(present.objects, present.selectedId).locked
    /\ activeTool # "delete"
    /\ ~spacePanning
    /\ UNCHANGED panVars
    /\ draggingId' = present.selectedId
    /\ dragNode' = present.selectedId
    /\ gesture' = NewGesture("drag", present.selectedId)
    /\ NoApply("handleObjectDragStart")
    /\ UNCHANGED <<activeTool, made, resizeState, resizeCommittedRef>>
    /\ SaveEffect

\* centres the pointer asks for when the button is released
DragPoints == {Point(Q(12) + 3, Q(7)), Point(Q(0), Q(0))}

\* the centre handleObjectDragEnd computes when the pointer asks for `raw`:
\* the node rests where dragBoundFunc put it, and that position is snapped
DragEndCentre(obj, raw, snap) == getObjectSnap(obj, getObjectSnap(obj, raw, snap), snap)

\* handleObjectDragEnd, the pointer released at one of `points`
ObjectDragEndAt(points) ==
    /\ steps < MaxEvents
    /\ dragNode # Null
    /\ HasObject(present.objects, dragNode)
    /\ \E raw \in points :
          LET obj == ObjectById(present.objects, dragNode)
              snappedCentre == DragEndCentre(obj, raw, present)
          IN  handleUpdateObject("handleObjectDragEnd", obj.id,
                                 [xMm |-> snappedCentre.xMm, yMm |-> snappedCentre.yMm], TRUE)
    /\ draggingId' = IF draggingId = dragNode THEN Null ELSE draggingId
    /\ dragNode' = Null
    /\ UNCHANGED panVars
    /\ gesture' = [gesture EXCEPT
                      !.phase = "released",
                      !.commits = IF lastCall' = "commit" THEN @ + 1 ELSE @]
    /\ UNCHANGED <<activeTool, made, resizeState, resizeCommittedRef>>
    /\ SaveEffect

ObjectDragEnd == ObjectDragEndAt(DragPoints)

-----------------------------------------------------------------------------
(* Spec: the editor.  It starts when AppShell has mounted and restored a   *)
(* project an earlier session saved; every step is one user event.         *)

EmptyProject(base) ==
    [ref |-> base, objectsRef |-> base + 1, objects |-> <<>>, selectedId |-> Null,
     snapToGrid |-> TRUE, snapToObjects |-> TRUE, snapIncrementMm |-> 100]

\* a landing at the origin, selected, free of snapping
LandingProject(base) ==
    [ref |-> base, objectsRef |-> base + 1,
     objects |-> <<newLandingAt(makeId(1), Q(0), Q(0), base + 2)>>,
     selectedId |-> makeId(1),
     snapToGrid |-> FALSE, snapToObjects |-> FALSE, snapIncrementMm |-> 1]

\* a landing and a ramp to its right, the landing selected, snapping to
\* objects and to a 10 mm grid
LandingRampProject(base) ==
    [ref |-> base, objectsRef |-> base + 1,
     objects |-> <<newLandingAt(makeId(1), Q(0), Q(0), base + 2),
                   newRampAt(makeId(2), Q(2110), Q(0), base + 2 + ObjCells)>>,
     selectedId |-> makeId(1),
     snapToGrid |-> TRUE, snapToObjects |-> TRUE, snapIncrementMm |-> 10]

RestoredProjects(base) == {EmptyProject(base), LandingProject(base), LandingRampProject(base)}

Init ==
    /\ lastArg \in RestoredProjects(1)
    /\ history = createHistoryState(lastArg, 1 + SnapCells(lastArg))
    /\ nextRef = 1 + 2 * SnapCells(lastArg)
    /\ lastEvent = "createHistoryState"
    /\ lastCall = "create"
    /\ prevCall = "none"
    /\ commits = 0
    /\ detours = 0
    /\ steps = 0
    /\ made = Len(lastArg.objects)
    /\ UiInit

Next ==
    \/ handleUndo
    \/ handleRedo
    \/ handleToggleSnapToGrid
    \/ handleToggleSnapToObjects
    \/ handleSetSnapIncrement
    \/ setActiveTool
    \/ InspectorCommitValue
    \/ InspectorToggleLock
    \/ handleRotateSelected
    \/ KeyBackspace
    \/ KeyArrow
    \/ StageMouseDownPlace
    \/ StageMouseDownClear
    \/ ObjectPointerDownSelect
    \/ ObjectPointerDownDelete
    \/ ResizePointerDown
    \/ StagePointerMoveResize
    \/ StagePointerMoveDrag
    \/ StageMouseUp
    \/ StageLeave
    \/ ObjectDragStart
    \/ ObjectDragEnd

Spec == Init /\ [][Next]_vars

-----------------------------------------------------------------------------
(* SpecUpdate: the update pipeline driven by a caller of                    *)
(* handleUpdateObject.  The project holds a landing and a ramp; every step  *)
(* is one handleUpdateObject(id, patch, true) with a patch of one of the    *)
(* lists below, so that history.past keeps the snapshot the patch was       *)
(* applied to.                                                              *)

\* numeric fields of every object: negative, fractional, out-of-range and
\* non-finite values
GeometryPatches ==
    << [lengthMm |-> Q(2000)],
       [runMm |-> Q(1500)],
       [lengthMm |-> Q(900), runMm |-> Q(900)],
       [lengthMm |-> Q(0 - 5), widthMm |-> Q(10) + 5, heightMm |-> NaN,
        elevationMm |-> PosInfinity],
       [xMm |-> Q(3) + Half(Q(1)), yMm |-> Q(0 - 8) + Half(Q(1)),
        rotationDeg |-> Q(725) + 4],
       [rotationDeg |-> Q(0 - 90)],
       [xMm |-> NaN],
       [rotationDeg |-> NegInfinity] >>

\* the wing fields of a ramp
WingPatches ==
    << [hasLeftWing |-> TRUE, leftWingSizeMm |-> Q(500)],
       [hasLeftWing |-> FALSE],
       [leftWingSizeMm |-> Q(300)],
       [hasRightWing |-> TRUE, rightWingSizeMm |-> Q(250) + Half(Q(1))],
       [hasRightWing |-> FALSE, rightWingSizeMm |-> Q(250)] >>

\* partial patches of the two measurement maps, and the empty patch
MeasurementPatches ==
    << [measurements |-> [E |-> TRUE]],
       [measurements |-> [L1 |-> TRUE, H |-> TRUE]],
       [measurements |-> [L1 |-> FALSE]],
       [measurementAnchors |-> [W1 |-> [offsetMm |-> Q(350)]]],
       [measurementAnchors |-> [E |-> [orientation |-> "left"], W1 |-> [offsetMm |-> Q(200)]]],
       [f \in {} |-> 0] >>

UpdatePatches == GeometryPatches \o WingPatches \o MeasurementPatches

\* an id no object of the project has
MissingId == makeId(9)

UpdateInit ==
    /\ lastArg = LandingRampProject(1)
    /\ history = createHistoryState(lastArg, 1 + SnapCells(lastArg))
    /\ nextRef = 1 + 2 * SnapCells(lastArg)
    /\ lastEvent = "createHistoryState"
    /\ lastCall = "create"
    /\ prevCall = "none"
    /\ commits = 0
    /\ detours = 0
    /\ steps = 0
    /\ made = Len(lastArg.objects)
    /\ UiInit

UpdateGeometry ==
    /\ steps < MaxUpdates
    /\ \E i \in 1..Len(present.objects) : \E n \in 1..Len(GeometryPatches) :
          handleUpdateObject("updateGeometry", present.objects[i].id, GeometryPatches[n], TRUE)
    /\ UNCHANGED <<activeTool, made>>
    /\ CanvasAfterOther

UpdateWings ==
    /\ steps < MaxUpdates
    /\ \E i \in 1..Len(present.objects) : \E n \in 1..Len(WingPatches) :
          handleUpdateObject("updateWings", present.objects[i].id, WingPatches[n], TRUE)
    /\ UNCHANGED <<activeTool, made>>
    /\ CanvasAfterOther

UpdateMeasurements ==
    /\ steps < MaxUpdates
    /\ \E i \in 1..Len(present.objects) : \E n \in 1..Len(MeasurementPatches) :
          handleUpdateObject("updateMeasurements", present.objects[i].id,
                             MeasurementPatches[n], TRUE)
    /\ UNCHANGED <<activeTool, made>>
    /\ CanvasAfterOther

UpdateMissing ==
    /\ steps < MaxUpdates
    /\ \E n \in 1..Len(UpdatePatches) :
          handleUpdateObject("updateMissing", MissingId, UpdatePatches[n], TRUE)
    /\ UNCHANGED <<activeTool, made>>
    /\ CanvasAfterOther

UpdateNext ==
    \/ UpdateGeometry
    \/ UpdateWings
    \/ UpdateMeasurements
    \/ UpdateMissing

SpecUpdate == UpdateInit /\ [][UpdateNext]_vars

-----------------------------------------------------------------------------
(* The history log: claims *)

Min(a, b) == IF a < b THEN a ELSE b

\* the value of the snapshot the caller passes as commit number n
CommittedValue(n) == StripSnapshot(CallerSnapshot(Q(n), 0))

\* C1: past never holds more than MAX_PAST (50) snapshots, and eviction is
\* oldest-first: after n commits in a row past holds the min(n, 50) most
\* recent pre-commit presents in order (n = 60 leaves the presents of commits
\* 10..59); and whenever a commit or redo meets a full past, the new past is
\* the old one without its first entry, followed by a copy of the old present.
C1_PastBoundedFifo ==
    /\ [](/\ Len(history.past) <= MAX_PAST
          /\ detours = 0 =>
                /\ Len(history.past) = Min(commits, MAX_PAST)
                /\ \A i \in 1..Len(history.past) :
                      StripSnapshot(history.past[i])
                        = CommittedValue(commits - Len(history.past) + i - 1))
    /\ [][(lastCall' \in {"commit", "redo"} /\ Len(history.past) = MAX_PAST
            /\ history' # history)
           => StripSeq(history'.past)
                = Append(Tail(StripSeq(history.past)), StripSnapshot(history.present))]_vars

\* C1 witness: more than MAX_PAST commits in a row, so entries were evicted
C1_Witness ==
    /\ detours = 0
    /\ commits = MAX_PAST + 3
    /\ Len(history.past) = MAX_PAST
    /\ StripSnapshot(history.past[1]) = CommittedValue(3)

\* C2: commitSnapshot appends (a copy of) the old present to the end of past,
\* makes next the present and empties future, so that a redo right after a
\* commit changes nothing (also when the commit followed an undo).
C2_CommitEffect ==
    [][lastCall' = "commit"
       => /\ StripSeq(history'.past)
               = Append(StripSeq(history.past), StripSnapshot(history.present))
          /\ StripSnapshot(history'.present) = StripSnapshot(lastArg')
          /\ history'.future = <<>>
          /\ redo(history', nextRef') = history']_vars

\* C2 witness: a commit made right after an undo that had left a redo branch
C2_Witness ==
    /\ prevCall = "undo"
    /\ lastCall = "commit"
    /\ Len(history.past) < commits
    /\ history.future = <<>>

\* C3: replacePresent changes only present: past and future stay the very
\* same arrays of the very same snapshots, so a preview adds no undo step.
C3_ReplaceFrame ==
    [][lastCall' = "replace"
       => /\ history'.past = history.past
          /\ history'.future = history.future
          /\ StripSnapshot(history'.present) = StripSnapshot(lastArg')]_vars

\* C3 witness: a preview replaced the present while both stacks held entries
C3_Witness ==
    /\ lastCall = "replace"
    /\ Len(history.past) > 0
    /\ Len(history.future) > 0
    /\ StripSnapshot(history.present) # StripSnapshot(history.past[Len(history.past)])

\* C4: on every history with a non-empty past, undo followed immediately by
\* redo gives a history deep-equal to the one before the undo: same present,
\* same past, same future.
C4_UndoRedoRoundTrip ==
    canUndo(history)
    => StripHistory(redo(undo(history, nextRef), nextRef + UndoCells(history)))
         = StripHistory(history)

\* C4 witness: an undo that acted, then a redo, after several commits
C4_Witness ==
    /\ prevCall = "undo"
    /\ lastCall = "redo"
    /\ commits >= 2
    /\ Len(history.past) = commits
    /\ history.future = <<>>

\* C5: undo with an empty past and redo with an empty future return the
\* history they were given: the same past, present and future references.
C5_UnderflowNoOp ==
    [][(\/ lastCall' = "undo" /\ Len(history.past) = 0
        \/ lastCall' = "redo" /\ Len(history.future) = 0)
       => history' = history]_vars

\* C5 witness: an undo ran on a history with nothing to undo, after a redo
\* ran with nothing to redo
C5_Witness ==
    /\ prevCall = "redo"
    /\ lastCall = "undo"
    /\ commits = 0
    /\ history.past = <<>>
    /\ history.future = <<>>

-----------------------------------------------------------------------------
(* The editor: claims *)

\* the snapshots a history holds, oldest first
Slots(h) == h.past \o <<h.present>> \o h.future

\* C6: no two of the slots past[i], present, future[j] share an object
\* record, an objects array or a nested measurements / labels / anchors map
\* (or one of their values), and present shares none with the snapshot the
\* caller passed in.
C6_NoAliasing ==
    /\ \A i \in 1..Len(Slots(history)) : \A j \in 1..Len(Slots(history)) :
          i < j => SnapRefs(Slots(history)[i]) \cap SnapRefs(Slots(history)[j]) = {}
    /\ SnapRefs(history.present) \cap SnapRefs(lastArg) = {}

\* C6 witness: an undo stack and a redo branch exist next to a present with
\* objects, after the editor passed a snapshot built around the objects of
\* the present it replaced
C6_Witness ==
    /\ Len(history.past) > 0
    /\ Len(history.future) > 0
    /\ Len(history.present.objects) > 0
    /\ lastCall = "undo"
    /\ Len(lastArg.objects) > 0

\* C7 as stated: while the pointer moves a gesture issues replacePresent
\* calls only, one per pointer-move, and its single commitSnapshot comes with
\* the release.
C7_CommitOnRelease ==
    gesture.kind # "none"
    => /\ gesture.earlyCommits = 0
       /\ gesture.replaces = gesture.moves
       /\ gesture.phase = "released" => gesture.commits = 1

\* C7: a drag or resize gesture issues at most one commitSnapshot.  In a
\* resize only the first pointer-move that handleResizeDrag applies (the
\* object exists and is unlocked) can issue it, and does when it changes the
\* object; every later pointer-move issues replacePresent or nothing, and
\* the release (handleStageMouseUp) calls no history function.  In a drag
\* the pointer-moves call no history function and the commit, if any, is
\* issued by handleObjectDragEnd.
C7_GestureCommits ==
    /\ [](/\ gesture.commits <= 1
          /\ gesture.kind = "resize"
             => /\ gesture.commits = gesture.earlyCommits
                /\ gesture.commitApplied = gesture.commits
                /\ gesture.commits + gesture.replaces <= gesture.moves
          /\ gesture.kind = "drag"
             => /\ gesture.earlyCommits = 0
                /\ gesture.replaces = 0
                /\ gesture.phase # "released" => gesture.commits = 0)
    /\ [][/\ lastEvent' \in {"handleStageMouseUp", "handleStagePointerMove"}
             => history' = history
          /\ lastEvent' = "handleResizeDrag" /\ resizeCommittedRef
             => lastCall' \in {"replace", "none"}]_vars

\* C7 witness: a resize whose first pointer-move committed and whose second
\* replaced the present has been released
C7_Witness ==
    /\ gesture.kind = "resize"
    /\ gesture.phase = "released"
    /\ gesture.moves = 2
    /\ gesture.commits = 1
    /\ gesture.replaces = 1
    /\ lastEvent = "handleStageMouseUp"

\* C8 as stated: a resize ended by the pointer leaving the stage before
\* pointer-up leaves past as it was before the gesture and present equal to
\* the snapshot that was present (the last one committed) when it began.
C8_CancelRestores ==
    (gesture.phase = "cancelled" /\ ~gesture.foreign)
    => /\ history.past = gesture.start.past
       /\ StripSnapshot(history.present) = StripSnapshot(gesture.start.present)

\* C8: Escape and the pointer leaving the stage call no history function,
\* and Escape does not end a resize.  A resize ended by handleStageLeave
\* keeps what its pointer-moves did: when the first pointer-move changed the
\* object, past has gained a copy of the pre-gesture present, the redo branch
\* is gone and present is the last preview; when no pointer-move called the
\* history, the HistoryState is the one the gesture began with.  A drag
\* leaves the HistoryState alone until handleObjectDragEnd.  (No other event
\* changed the history during the gesture.)
C8_CancelKeepsPreview ==
    /\ [](/\ (gesture.phase = "cancelled" /\ ~gesture.foreign)
             => /\ gesture.commits = 1
                   => /\ gesture.commitMove = 1
                      /\ StripSeq(history.past)
                           = TrimPast(Append(StripSeq(gesture.start.past),
                                             StripSnapshot(gesture.start.present)))
                      /\ history.future = <<>>
                      /\ StripSnapshot(history.present) = StripSnapshot(lastArg)
                /\ gesture.commits = 0
                   => /\ history.past = gesture.start.past
                      /\ history.future = gesture.start.future
                /\ (gesture.commits = 0 /\ gesture.replaces = 0)
                   => history = gesture.start
          /\ (gesture.kind = "drag" /\ gesture.phase = "active" /\ ~gesture.foreign)
             => history = gesture.start)
    /\ [][/\ lastEvent' \in {"keyEscape", "handleStageLeave"} => history' = history
          /\ lastEvent' = "keyEscape" => resizeState' = resizeState]_vars

\* C8 witness: the pointer left the stage in a resize whose first pointer-move
\* had committed and whose second had replaced the present
C8_Witness ==
    /\ gesture.kind = "resize"
    /\ gesture.phase = "cancelled"
    /\ ~gesture.foreign
    /\ gesture.commits = 1
    /\ gesture.replaces = 1
    /\ lastEvent = "handleStageLeave"
    /\ Len(history.past) = Len(gesture.start.past) + 1
    /\ StripSnapshot(history.present) # StripSnapshot(gesture.start.present)

\* {} as a patch
EmptyPatch == [f \in {} |-> 0]

\* the snapshots the editor holds: the history's and the last one it built
HeldSnapshots == {Slots(history)[i] : i \in 1..Len(Slots(history))} \cup {lastArg}

CommitRequests ==
    {"inspectorCommitValue", "inspectorToggleLock", "handleRotateSelected", "keyArrow",
     "handleObjectDragEnd"}

\* C10: when a commit is requested with a patch that leaves the object
\* structurally equal, the whole HistoryState stays the very same: no history
\* function is called, past gains no entry and future is not cleared.
C10_EqualPatchNoCommit ==
    [][(/\ lastEvent' \in CommitRequests
        /\ StripSnapshot(history'.present) = StripSnapshot(history.present))
       => /\ history' = history
          /\ lastCall' = "none"]_vars

\* C10 witness: with an undo step and a redo branch in place, the inspector
\* committed the value the object already had
C10_Witness ==
    /\ lastEvent = "inspectorCommitValue"
    /\ lastCall = "none"
    /\ prevCall = "undo"
    /\ Len(history.past) > 0
    /\ Len(history.future) > 0

-----------------------------------------------------------------------------
(* SpecSnap: two landings dragged next to each other.  The project was      *)
(* saved with both landings resized; every step is a pointer-down on a      *)
(* landing, the start or the end of a drag, or a snapping toggle.           *)

\* a landing of lengthMm x widthMm = size x 1000 mm
SizedLanding(id, xMm, size, base) ==
    [newLandingAt(id, xMm, Q(0), base) EXCEPT !.lengthMm = size, !.widthMm = Q(1000)]

\* the first landing at the origin, the second one, selected, 3 m to its
\* right; snapping to objects and to a 100 mm grid
TwoLandingsProject(size, base) ==
    [ref |-> base, objectsRef |-> base + 1,
     objects |-> <<SizedLanding(makeId(1), Q(0), size, base + 2),
                   SizedLanding(makeId(2), Q(3000), Q(1000), base + 2 + ObjCells)>>,
     selectedId |-> makeId(2),
     snapToGrid |-> TRUE, snapToObjects |-> TRUE, snapIncrementMm |-> 100]

\* lengths of the first landing: even and odd
FirstLengths == {Q(1000), Q(1001)}

SnapInit ==
    /\ lastArg \in {TwoLandingsProject(size, 1) : size \in FirstLengths}
    /\ history = createHistoryState(lastArg, 1 + SnapCells(lastArg))
    /\ nextRef = 1 + 2 * SnapCells(lastArg)
    /\ lastEvent = "createHistoryState"
    /\ lastCall = "create"
    /\ prevCall = "none"
    /\ commits = 0
    /\ detours = 0
    /\ steps = 0
    /\ made = Len(lastArg.objects)
    /\ UiInit

\* centres the pointer asks for: the dragged landing's left edge within
\* 10 mm of the other's right edge (at 500 mm), within the threshold, beyond
\* it, far away; its top edge level with the other's, near it, far from it
SnapDragPoints ==
    {Point(x, y) : x \in {Q(990), Q(993) + 5, Q(1010), Q(1018), Q(1031), Q(1504) + 5},
                   y \in {Q(0), Q(7), Q(333) + 4}}

SnapDragEnd == ObjectDragEndAt(SnapDragPoints)

SnapNext ==
    \/ ObjectPointerDownSelect
    \/ ObjectDragStart
    \/ SnapDragEnd
    \/ handleToggleSnapToGrid
    \/ handleToggleSnapToObjects

SpecSnap == SnapInit /\ [][SnapNext]_vars

-----------------------------------------------------------------------------
(* SpecResize: corner resizes of one object.  The project holds the        *)
(* object that is resized, selected at the origin, and a landing 3 m to    *)
(* its right to snap to, under each snap configuration; every step is a    *)
(* pointer-down on a handle, a pointer-move, a release or an undo.         *)

\* the resized object: a landing or a ramp of the given length, turned by a
\* right angle
ResizeSubject(kind, size, rotationDeg, base) ==
    IF kind = "ramp"
    THEN [newRampAt(makeId(1), Q(0), Q(0), base)
            EXCEPT !.lengthMm = size, !.runMm = size, !.rotationDeg = rotationDeg]
    ELSE [newLandingAt(makeId(1), Q(0), Q(0), base)
            EXCEPT !.lengthMm = size, !.widthMm = Q(1000), !.rotationDeg = rotationDeg]

ResizeProject(subject, snapToGrid, snapToObjects, base) ==
    [ref |-> base, objectsRef |-> base + 1,
     objects |-> <<FreshObject(subject, base + 2),
                   SizedLanding(makeId(2), Q(3000), Q(1000), base + 2 + ObjCells)>>,
     selectedId |-> makeId(1),
     snapToGrid |-> snapToGrid, snapToObjects |-> snapToObjects, snapIncrementMm |-> 10]

ResizeKinds == {"landing", "ramp"}
ResizeLengths == {Q(1000), Q(1001)}
ResizeRotations == {Q(0), Q(90), Q(180), Q(270)}

\* odd lengths are drawn for the landing only
OddRamps ==
    {ResizeSubject("ramp", size, deg, 0) :
        size \in ResizeLengths \ {Q(1000)}, deg \in ResizeRotations}

ResizeInit ==
    /\ lastArg \in {ResizeProject(subject, snapToGrid, snapToObjects, 1) :
                      subject \in {ResizeSubject(kind, size, deg, 0) :
                                     kind \in ResizeKinds, size \in ResizeLengths,
                                     deg \in ResizeRotations} \ OddRamps,
                      snapToGrid \in BOOLEAN, snapToObjects \in BOOLEAN}
    /\ history = createHistoryState(lastArg, 1 + SnapCells(lastArg))
    /\ nextRef = 1 + 2 * SnapCells(lastArg)
    /\ lastEvent = "createHistoryState"
    /\ lastCall = "create"
    /\ prevCall = "none"
    /\ commits = 0
    /\ detours = 0
    /\ steps = 0
    /\ made = Len(lastArg.objects)
    /\ UiInit

\* all four handles of handleConfig
AllCorners == {"topLeft", "topRight", "bottomLeft", "bottomRight"}

\* positions of the pointer during a resize: far on either side of the
\* object (past every anchor corner), on a corner of the 1000 mm body, off
\* the grid by a fraction, and within the snap threshold of the other
\* landing's left face (at 2500 mm)
ResizePoints ==
    {Point(x, y) : x \in {Q(0 - 3000), Q(500), Q(803) + 7, Q(2495)},
                   y \in {Q(0 - 3000), Q(500)}}

ResizeDown == ResizePointerDownAt(AllCorners, {LeftButton})

ResizeMove == StagePointerMoveResizeAt(ResizePoints)

ResizeNext ==
    \/ ResizeDown
    \/ ResizeMove
    \/ StageMouseUp
    \/ handleUndo

SpecResize == ResizeInit /\ [][ResizeNext]_vars

-----------------------------------------------------------------------------
(* SpecPan: gestures with both mouse buttons and the space bar.  The       *)
(* project holds a selected landing; every step is a key or pointer event  *)
(* of the canvas.                                                          *)

PanInit ==
    /\ lastArg = LandingProject(1)
    /\ history = createHistoryState(lastArg, 1 + SnapCells(lastArg))
    /\ nextRef = 1 + 2 * SnapCells(lastArg)
    /\ lastEvent = "createHistoryState"
    /\ lastCall = "create"
    /\ prevCall = "none"
    /\ commits = 0
    /\ detours = 0
    /\ steps = 0
    /\ made = Len(lastArg.objects)
    /\ UiInit

\* a pointer-down on a handle with either button
ResizePointerDownAnyButton == ResizePointerDownAt(ResizeCorners, {LeftButton, RightButton})

PanNext ==
    \/ KeySpaceDown
    \/ KeySpaceUp
    \/ StageMouseDownPan
    \/ StagePointerMovePan
    \/ ResizePointerDownAnyButton
    \/ StagePointerMoveResize
    \/ StagePointerMoveDrag
    \/ StageMouseUp
    \/ StageLeave
    \/ ObjectDragStart
    \/ ObjectDragEnd

SpecPan == PanInit /\ [][PanNext]_vars

-----------------------------------------------------------------------------
(* SpecSave: the debounced save of AppShell.  The project holds a landing  *)
(* and a ramp; every step is an editor event (the save effect runs with    *)
(* its render), the firing of a pending timer, or the unmount of AppShell. *)

SaveInit ==
    /\ lastArg = LandingRampProject(1)
    /\ history = createHistoryState(lastArg, 1 + SnapCells(lastArg))
    /\ nextRef = 1 + 2 * SnapCells(lastArg)
    /\ lastEvent = "createHistoryState"
    /\ lastCall = "create"
    /\ prevCall = "none"
    /\ commits = 0
    /\ detours = 0
    /\ steps = 0
    /\ made = Len(lastArg.objects)
    /\ UiInit

\* what a call of saveProject comes to: the project is stored; setItem
\* throws and the catch swallows it; the call itself throws (the storage
\* cannot even be looked at)
WriteOutcomes == {"stored", "caught", "thrown"}

\* a pending timer fires: saveProject(snapshot), then saveTimerRef.current
\* = null unless saveProject threw
SaveTimerFires ==
    /\ steps < MaxEvents
    /\ \E t \in timers : \E outcome \in WriteOutcomes :
          /\ timers' = timers \ {t}
          /\ lastWrite' = t.snapshot
          /\ storage' = IF outcome = "stored" THEN Serialised(t.snapshot) ELSE storage
          /\ saveTimerRef' = IF outcome = "thrown" THEN saveTimerRef ELSE Null
    /\ lastEvent' = "saveTimerFires"
    /\ lastCall' = "none"
    /\ prevCall' = lastCall
    /\ steps' = steps + 1
    /\ UNCHANGED <<history, lastArg, nextRef, commits, detours, pureCall, mounted,
                   activeTool, made, resizeState, resizeCommittedRef, draggingId, dragNode,
                   gesture, spacePanning, isPanningRef, camera>>

\* AppShell unmounts: the cleanup clears the timer saveTimerRef names
Unmount ==
    /\ steps < MaxEvents
    /\ mounted
    /\ mounted' = FALSE
    /\ timers' = {t \in timers : t.id # saveTimerRef}
    /\ lastEvent' = "unmount"
    /\ lastCall' = "none"
    /\ prevCall' = lastCall
    /\ steps' = steps + 1
    /\ UNCHANGED <<history, lastArg, nextRef, commits, detours, pureCall, saveTimerRef,
                   storage, lastWrite,
                   activeTool, made, resizeState, resizeCommittedRef, draggingId, dragNode,
                   gesture, spacePanning, isPanningRef, camera>>

SaveNext ==
    \/ SaveTimerFires
    \/ Unmount
    \/ handleUndo
    \/ handleRedo
    \/ handleToggleSnapToGrid
    \/ setActiveTool
    \/ InspectorCommitValue
    \/ ObjectPointerDownSelect
    \/ StageMouseDownClear

SpecSave == SaveInit /\ [][SaveNext]_vars

-----------------------------------------------------------------------------
(* SpecClamp: clampInt called directly, as the export of objectUpdate.ts    *)
(* allows, with a value, a minimum and an optional maximum not below it.    *)

\* non-finite, negative, fractional, whole and large values
ClampValues ==
    {NaN, PosInfinity, NegInfinity, Q(0 - 5), Q(0 - 8) + Half(Q(1)), 0,
     Q(3) + Half(Q(1)), Q(10) + 5, Q(50), Q(2000)}
ClampMins == {Q(0 - 10), 0, Q(100)}
ClampMaxes == {Q(100), Q(360), Q(1000)}

ClampCallNoMax ==
    /\ \E value \in ClampValues : \E min \in ClampMins :
          pureCall' = [called |-> TRUE, value |-> value, min |-> min, max |-> NoMax,
                        result |-> clampInt(value, min, NoMax)]
    /\ UNCHANGED <<history, lastArg, lastEvent, lastCall, prevCall, nextRef, commits,
                   detours, steps, uiVars>>

ClampCallWithMax ==
    /\ \E value \in ClampValues : \E min \in ClampMins : \E max \in ClampMaxes :
          /\ min <= max
          /\ pureCall' = [called |-> TRUE, value |-> value, min |-> min, max |-> <<max>>,
                           result |-> clampInt(value, min, <<max>>)]
    /\ UNCHANGED <<history, lastArg, lastEvent, lastCall, prevCall, nextRef, commits,
                   detours, steps, uiVars>>

ClampNext ==
    \/ ClampCallNoMax
    \/ ClampCallWithMax

SpecClamp == UpdateInit /\ [][ClampNext]_vars

-----------------------------------------------------------------------------
(* SpecPick: pickBestAxisCandidate applied to the candidate lists of one    *)
(* axis, in every order, whether or not getObjectSnap can collect them.     *)

\* candidates of an axis: faces and points of interest, nearer and farther,
\* on either side, two of them at the same distance
PickCandidates ==
    {[delta |-> Q(5), snapCoord |-> Q(505), type |-> "face"],
     [delta |-> Q(0 - 12), snapCoord |-> Q(488), type |-> "face"],
     [delta |-> Q(0 - 5), snapCoord |-> Q(495), type |-> "face"],
     [delta |-> Q(2), snapCoord |-> Q(502), type |-> "poi"],
     [delta |-> Q(0 - 2), snapCoord |-> Q(498), type |-> "poi"],
     [delta |-> Q(9), snapCoord |-> Q(509), type |-> "poi"]}

PickCall ==
    /\ \E n \in 0..MaxCandidates : \E candidates \in [1..n -> PickCandidates] :
          pureCall' = [called |-> TRUE, candidates |-> candidates,
                       result |-> pickBestAxisCandidate(candidates)]
    /\ UNCHANGED <<history, lastArg, lastEvent, lastCall, prevCall, nextRef, commits,
                   detours, steps, uiVars>>

SpecPick == UpdateInit /\ [][PickCall]_vars

-----------------------------------------------------------------------------
(* The update pipeline: claims *)

\* C11: updateObject with an id that matches no object returns the snapshot
\* it was given, the same reference with the same contents, for every patch;
\* a handleUpdateObject with such an id therefore calls no history function.
C11_UnknownIdSameReference ==
    /\ \A n \in 1..Len(UpdatePatches) :
          updateObject(present, MissingId, UpdatePatches[n], nextRef) = present
    /\ lastEvent = "updateMissing" => lastCall = "none"

\* an update with an unknown id has run on a snapshot earlier updates built
C11_Witness ==
    /\ lastEvent = "updateMissing"
    /\ lastCall = "none"
    /\ Len(history.past) > 0
    /\ ~HasObject(present.objects, MissingId)

\* the object at index i of what updateObject returns for a patch of the
\* object at index i of the present
Updated(i, patch) == updateObject(present, present.objects[i].id, patch, nextRef).objects[i]

Ramps == {i \in 1..Len(present.objects) : present.objects[i].kind = "ramp"}

\* C12: after any updateObject call that targets a ramp, leftWingSizeMm is 0
\* whenever hasLeftWing is false and rightWingSizeMm is 0 whenever
\* hasRightWing is false; patching hasLeftWing: false on a ramp whose
\* leftWingSizeMm is 500 yields leftWingSizeMm 0.
C12_WingsForcedToZero ==
    \A i \in Ramps :
        /\ \A n \in 1..Len(UpdatePatches) :
              LET u == Updated(i, UpdatePatches[n])
              IN  /\ ~u.hasLeftWing => u.leftWingSizeMm = 0
                  /\ ~u.hasRightWing => u.rightWingSizeMm = 0
        /\ present.objects[i].leftWingSizeMm = Q(500)
              => Updated(i, [hasLeftWing |-> FALSE]).leftWingSizeMm = 0

\* the patch hasLeftWing: false was applied to a ramp whose left wing was
\* 500 mm, and the wing of the result is 0
C12_Witness ==
    /\ lastEvent = "updateWings"
    /\ lastCall = "commit"
    /\ \E i \in Ramps :
          LET before == history.past[Len(history.past)].objects[i]
              after == present.objects[i]
          IN  /\ before.hasLeftWing /\ before.leftWingSizeMm = Q(500)
              /\ ~after.hasLeftWing /\ after.leftWingSizeMm = 0

\* C13: for every ramp, after any updateObject call, whatever subset of
\* lengthMm and runMm the patch supplies, the result has runMm = lengthMm.
C13_RunTracksLength ==
    \A i \in Ramps : present.objects[i].runMm = present.objects[i].lengthMm

\* the flag / the anchor of key k is in `after` what it is in `before`
SameFlag(before, after, k) == after.measurements.flags[k] = before.measurements.flags[k]
SameAnchor(before, after, k) ==
    /\ after.measurementAnchors.vals[k].offsetMm = before.measurementAnchors.vals[k].offsetMm
    /\ after.measurementAnchors.vals[k].orientation
          = before.measurementAnchors.vals[k].orientation

\* C14: a patch that supplies only some keys of measurements or of
\* measurementAnchors changes exactly those keys: a key of the patch gets the
\* patch's flag (the supplied fields of its anchor), every key absent from the
\* patch keeps its previous flag and its previous anchor.
C14_KeyByKeyMerge ==
    \A i \in 1..Len(present.objects) : \A n \in 1..Len(MeasurementPatches) :
        LET patch == MeasurementPatches[n]
            target == present.objects[i]
            u == Updated(i, patch)
            flagKeys == IF Has(patch, "measurements") THEN DOMAIN patch.measurements ELSE {}
            anchorKeys == IF Has(patch, "measurementAnchors")
                          THEN DOMAIN patch.measurementAnchors ELSE {}
        IN  /\ \A k \in KeySet \ flagKeys : SameFlag(target, u, k)
            /\ \A k \in flagKeys : u.measurements.flags[k] = patch.measurements[k]
            /\ \A k \in KeySet \ anchorKeys : SameAnchor(target, u, k)
            /\ \A k \in anchorKeys :
                  LET p == patch.measurementAnchors[k]
                      a == u.measurementAnchors.vals[k]
                      t == target.measurementAnchors.vals[k]
                  IN  /\ a.offsetMm = IF Has(p, "offsetMm") THEN p.offsetMm ELSE t.offsetMm
                      /\ a.orientation
                            = IF Has(p, "orientation") THEN p.orientation ELSE t.orientation

\* {measurements: {E: true}} was applied to an object that had other flags
\* on: E is on now and every other key is what it was
C14_Witness ==
    /\ lastEvent = "updateMeasurements"
    /\ lastCall = "commit"
    /\ \E i \in 1..Len(present.objects) :
          LET before == history.past[Len(history.past)].objects[i]
              after == present.objects[i]
          IN  /\ ~before.measurements.flags["E"] /\ after.measurements.flags["E"]
              /\ before.measurements.flags["L1"] /\ before.measurements.flags["H"]
              /\ \A k \in KeySet \ {"E"} : SameFlag(before, after, k)
              /\ \A k \in KeySet : SameAnchor(before, after, k)

\* v is a whole number (of millimetres or of degrees)
IsInteger(v) == IsFinite(v) /\ v % Q(1) = 0

SizeFields == {"lengthMm", "widthMm", "heightMm", "elevationMm"}

\* the claim of C15 as stated: every object updateObject has returned has
\* whole, non-negative sizes, a whole rotation in [0, 360) and a whole
\* position, whatever the patch was
C15_AlwaysIntegers ==
    \A i \in 1..Len(present.objects) :
        LET obj == present.objects[i]
        IN  /\ \A f \in SizeFields : IsInteger(obj[f]) /\ obj[f] >= 0
            /\ IsInteger(obj.rotationDeg) /\ obj.rotationDeg >= 0 /\ obj.rotationDeg < Q(360)
            /\ IsInteger(obj.xMm) /\ IsInteger(obj.yMm)

\* C15 (amended): every object updateObject returns has lengthMm, widthMm,
\* heightMm and elevationMm as integers >= 0 for every patch, non-finite
\* values included; rotationDeg is an integer in [0, 360) and xMm, yMm are
\* integers whenever the value the patch leaves in the field is finite.  A
\* non-finite xMm or yMm is returned as it is and a non-finite rotationDeg
\* as NaN.
C15_NormalisedWhenFinite ==
    \A i \in 1..Len(present.objects) : \A n \in 1..Len(UpdatePatches) :
        LET patch == UpdatePatches[n]
            target == present.objects[i]
            u == Updated(i, patch)
            merged(f) == IF Has(patch, f) THEN patch[f] ELSE target[f]
        IN  /\ \A f \in SizeFields : IsInteger(u[f]) /\ u[f] >= 0
            /\ IF IsFinite(merged("rotationDeg"))
               THEN IsInteger(u.rotationDeg) /\ u.rotationDeg >= 0 /\ u.rotationDeg < Q(360)
               ELSE u.rotationDeg = NaN
            /\ \A f \in {"xMm", "yMm"} :
                  IF IsFinite(merged(f)) THEN IsInteger(u[f]) ELSE u[f] = merged(f)

\* an object took negative, fractional, out-of-range and non-finite values
\* and holds their normal forms: -5 -> 0, 10.3125 -> 10, NaN and +Infinity
\* -> 0, 725.25 degrees -> 5, 3.5 -> 4, -7.5 -> -7
C15_Witness ==
    /\ lastEvent = "updateGeometry"
    /\ \E i \in 1..Len(present.objects) :
          LET obj == present.objects[i]
          IN  /\ obj.lengthMm = 0 /\ obj.widthMm = Q(10)
              /\ obj.heightMm = 0 /\ obj.elevationMm = 0
              /\ obj.rotationDeg = Q(5)
              /\ obj.xMm = Q(4) /\ obj.yMm = Q(0 - 7)

\* C16: clampInt(v, min, max?) returns min for every non-finite v (NaN,
\* +Infinity, -Infinity), whether or not max is given, and otherwise returns
\* the rounded v clamped into [min, max].
C16_ClampIntContract ==
    pureCall.called =>
        LET rounded == MathRound(pureCall.value)
        IN  pureCall.result =
                IF ~IsFinite(pureCall.value) THEN pureCall.min
                ELSE IF rounded < pureCall.min THEN pureCall.min
                ELSE IF pureCall.max # NoMax /\ rounded > pureCall.max[1]
                     THEN pureCall.max[1]
                ELSE rounded

-----------------------------------------------------------------------------
(* Selection and snapping: claims *)

\* the events that call handleDeleteObject
DeleteEvents == {"keyBackspace", "handleDeleteObject"}

\* C17: in every snapshot the editor reaches through place, select,
\* clear-selection, delete, updateObject, undo and redo (the present, the
\* past and the future entries), selectedId is null or the id of an object
\* of that snapshot; a delete that removes the selected object leaves
\* selectedId null in the snapshot it commits.
C17_SelectionExists ==
    /\ \A snapshot \in HeldSnapshots :
          snapshot.selectedId = Null \/ HasObject(snapshot.objects, snapshot.selectedId)
    /\ (lastEvent \in DeleteEvents /\ lastCall = "commit") =>
          LET before == history.past[Len(history.past)]
          IN  ~HasObject(present.objects, before.selectedId) => present.selectedId = Null

\* a delete has removed the selected object while another object remains
C17_Witness ==
    /\ lastEvent \in DeleteEvents
    /\ lastCall = "commit"
    /\ LET before == history.past[Len(history.past)]
       IN  /\ HasObject(before.objects, before.selectedId)
           /\ ~HasObject(present.objects, before.selectedId)
    /\ Len(present.objects) > 0
    /\ present.selectedId = Null

\* the candidates of type `type` in a list
OfType(candidates, type) == SelectSeq(candidates, LAMBDA c : c.type = type)

\* C18: on an axis the snap engine picks a face candidate whenever the axis
\* has at least one, even if a poi candidate has a smaller absolute delta;
\* what it picks is a candidate of the list, and no candidate of the picked
\* type has a smaller absolute delta.  It picks nothing only from no
\* candidates.
C18_FaceBeforePoi ==
    pureCall.called =>
        LET candidates == pureCall.candidates
            best == pureCall.result
        IN  /\ best.found <=> candidates # <<>>
            /\ OfType(candidates, "face") # <<>> => best.type = "face"
            /\ best.found =>
                  /\ \E i \in 1..Len(candidates) :
                        candidates[i].type = best.type /\ candidates[i].delta = best.delta
                  /\ \A i \in 1..Len(OfType(candidates, best.type)) :
                        Abs(best.delta) <= Abs(OfType(candidates, best.type)[i].delta)

\* a face was picked although a poi candidate of the list was nearer
C18_Witness ==
    /\ pureCall.called
    /\ pureCall.result.found
    /\ pureCall.result.type = "face"
    /\ \E i \in 1..Len(pureCall.candidates) :
          /\ pureCall.candidates[i].type = "poi"
          /\ Abs(pureCall.candidates[i].delta) < Abs(pureCall.result.delta)

\* the step of the grid: snapIncrementMm, or 1 mm when snapToGrid is off
GridStep(snap) == IF snap.snapToGrid THEN snap.snapIncrementMm ELSE MIN_INCREMENT_MM

\* the claim of C19 as stated, for one axis of the object being dragged and
\* one pointer position: an axis an object claimed has its top-left
\* coordinate exactly at the object-snapped coordinate, an axis no object
\* claimed has it at the nearest multiple of the grid step
AxisKeepsSnap(free, best, result, snap) ==
    result = IF best.found THEN free + best.delta ELSE snapMm(free, GridStep(snap))

\* the same with the object-snapped coordinate rounded to the millimetre
AxisKeepsSnapToMm(free, best, result, snap) ==
    result = IF best.found THEN snapMm(free + best.delta, MIN_INCREMENT_MM)
             ELSE snapMm(free, GridStep(snap))

\* the object being dragged
Dragged == ObjectById(present.objects, dragNode)

\* the top-left corner of the dragged object's bounding box: where the
\* pointer asks for it, and where getObjectSnap puts it
FreeTopLeft(raw) == topLeftFromCenterMm(raw, getObjectBoundingBoxMm(Dragged))
SnappedTopLeft(raw) ==
    topLeftFromCenterMm(getObjectSnap(Dragged, raw, present), getObjectBoundingBoxMm(Dragged))

\* bestX / bestY of getObjectSnap for the dragged object at `raw`
BestAt(raw, axis) == DragBest(getAabbMm(Dragged, raw), present, dragNode, axis)

C19_KeepsSnapExactly ==
    (dragNode # Null /\ HasObject(present.objects, dragNode)) =>
        \A raw \in SnapDragPoints :
            /\ AxisKeepsSnap(FreeTopLeft(raw).xMm, BestAt(raw, "x"),
                             SnappedTopLeft(raw).xMm, present)
            /\ AxisKeepsSnap(FreeTopLeft(raw).yMm, BestAt(raw, "y"),
                             SnappedTopLeft(raw).yMm, present)

\* C19 (amended): during a move, an axis that received an object snap keeps
\* the object-snapped coordinate, its bounding box's top-left rounded to the
\* nearest millimetre, and is not moved to the grid; an axis with no object
\* snap has the top-left rounded to the nearest multiple of snapIncrementMm
\* (1 mm when snapToGrid is off).  Each axis is decided on its own.
C19_AxesComposition ==
    (dragNode # Null /\ HasObject(present.objects, dragNode)) =>
        \A raw \in SnapDragPoints :
            /\ AxisKeepsSnapToMm(FreeTopLeft(raw).xMm, BestAt(raw, "x"),
                                 SnappedTopLeft(raw).xMm, present)
            /\ AxisKeepsSnapToMm(FreeTopLeft(raw).yMm, BestAt(raw, "y"),
                                 SnappedTopLeft(raw).yMm, present)

\* a drag that, for one pointer position, snaps to an object on X, off the
\* 100 mm grid, and to the grid on Y
C19_Witness ==
    /\ dragNode # Null
    /\ HasObject(present.objects, dragNode)
    /\ present.snapToGrid
    /\ \E raw \in SnapDragPoints :
          /\ BestAt(raw, "x").found
          /\ ~BestAt(raw, "y").found
          /\ SnappedTopLeft(raw).xMm # snapMm(SnappedTopLeft(raw).xMm, present.snapIncrementMm)
          /\ SnappedTopLeft(raw).yMm = snapMm(FreeTopLeft(raw).yMm, present.snapIncrementMm)
          /\ SnappedTopLeft(raw).yMm # FreeTopLeft(raw).yMm

\* the present holds two landings of 1000 x 1000 mm and snaps to objects
TwoSquareLandings ==
    /\ Len(present.objects) = 2
    /\ \A i \in 1..2 :
          /\ present.objects[i].kind = "landing"
          /\ present.objects[i].lengthMm = Q(1000)
          /\ present.objects[i].widthMm = Q(1000)
    /\ present.snapToObjects

\* left edge of the second landing minus right edge of the first, the second
\* landing's centre taken at `centre`
Gap(objects, centre) ==
    getAabbMm(objects[2], centre).left - getAabbMm(objects[1], ObjCentre(objects[1])).right

\* the snapshot handleObjectDragEnd passes on when the pointer asks for `raw`
AfterDragEnd(raw) ==
    updateObject(present, dragNode,
                 [xMm |-> DragEndCentre(Dragged, raw, present).xMm,
                  yMm |-> DragEndCentre(Dragged, raw, present).yMm], nextRef)

\* C20: with two landings of 1000 x 1000 mm and object snapping on, a drag
\* of the second landing that brings its left edge within 10 mm of the
\* first's right edge ends, after drag-end, with the second's left edge
\* equal to the first's right edge (zero gap), and the X candidate chosen
\* for that pointer position is of type face.
C20_EdgesMeet ==
    (TwoSquareLandings /\ dragNode = present.objects[2].id) =>
        \A raw \in SnapDragPoints :
            Abs(Gap(present.objects, raw)) <= Q(10) =>
                /\ Gap(AfterDragEnd(raw).objects, ObjCentre(AfterDragEnd(raw).objects[2])) = 0
                /\ BestAt(raw, "x").found
                /\ BestAt(raw, "x").type = "face"

\* the second landing was dragged from a gap to the first's right edge, the
\* grid off, and rests with no gap off the 100 mm grid
C20_Witness ==
    /\ lastEvent = "handleObjectDragEnd"
    /\ lastCall = "commit"
    /\ TwoSquareLandings
    /\ ~present.snapToGrid
    /\ Gap(history.past[Len(history.past)].objects,
           ObjCentre(history.past[Len(history.past)].objects[2])) > Q(10)
    /\ Gap(present.objects, ObjCentre(present.objects[2])) = 0

-----------------------------------------------------------------------------
(* Resizing: claims *)

\* the object of the resize session as handleResizeDrag leaves it with the
\* pointer at `pos`
Resized(pos) ==
    LET obj == ObjectById(present.objects, resizeState.objectId)
        next == updateObject(present, obj.id, ResizePatch(obj, resizeState, pos, present),
                             nextRef)
    IN  ObjectById(next.objects, obj.id)

\* the body lies on the handle's side of the anchor: its centre, seen from
\* the anchor along the object's axes, is on the side dirX / dirY point to
OnHandleSide(session, obj) ==
    /\ session.dirX * ToLocal(session, Point(obj.xMm, obj.yMm)).xMm > 0
    /\ session.dirY * ToLocal(session, Point(obj.xMm, obj.yMm)).yMm > 0

\* a pointer at or behind the anchor on an axis leaves the minimum size on
\* it (an object snap may add up to the snap threshold), never the
\* pointer's distance mirrored to the other side
NotMirrored(session, pos, obj) ==
    /\ session.dirX * ToLocal(session, pos).xMm <= 0
          => obj.lengthMm <= Q(MIN_OBJECT_SIZE_MM + SNAP_THRESHOLD_MM)
    /\ session.dirY * ToLocal(session, pos).yMm <= 0
          => obj.widthMm <= Q(MIN_OBJECT_SIZE_MM + SNAP_THRESHOLD_MM)

\* what holds of the object a resize update left for the pointer at `pos`
ResizedWell(session, pos, obj) ==
    /\ obj.lengthMm >= Q(MIN_OBJECT_SIZE_MM)
    /\ obj.widthMm >= Q(MIN_OBJECT_SIZE_MM)
    /\ OnHandleSide(session, obj)
    /\ NotMirrored(session, pos, obj)

\* C21: after every resize update, for every handle, pointer position,
\* right-angle rotation and snap configuration, the object's length and
\* width are both at least 100 mm and its body lies on the handle's side of
\* the anchor; a pointer dragged past the anchor corner yields no zero,
\* negative or mirrored size.
C21_ResizeKeepsMinimum ==
    /\ (resizeState # NoSession /\ ResizeApplies)
          => \A pos \in ResizePoints : ResizedWell(resizeState, pos, Resized(pos))
    /\ (lastEvent = "handleResizeDrag" /\ resizeState # NoSession /\ ResizeApplies)
          => LET obj == ObjectById(present.objects, resizeState.objectId)
             IN  /\ obj.lengthMm >= Q(MIN_OBJECT_SIZE_MM)
                 /\ obj.widthMm >= Q(MIN_OBJECT_SIZE_MM)
                 /\ OnHandleSide(resizeState, obj)

\* C21 witness: a pointer-move 3 m behind the anchor on both axes shrank a
\* turned object to 100 mm by 100 mm
C21_Witness ==
    /\ lastEvent = "handleResizeDrag"
    /\ lastCall = "commit"
    /\ resizeState # NoSession
    /\ resizeState.corner = "bottomRight"
    /\ present.objects[1].rotationDeg = Q(90)
    /\ present.objects[1].lengthMm = Q(MIN_OBJECT_SIZE_MM)
    /\ present.objects[1].widthMm = Q(MIN_OBJECT_SIZE_MM)

\* the body corner opposite the dragged handle, in world space
AnchorCorner(session, obj) == getHandleWorldPoint(obj, handleConfig[session.corner].anchor)

\* a resize update has just been applied to the object of the session
JustResized ==
    /\ lastEvent = "handleResizeDrag"
    /\ resizeState # NoSession
    /\ ResizeApplies

\* the centre handleResizeDrag asks for: the anchor plus half the size
AskedCentre(session, obj) ==
    FromLocal(session, Point(session.dirX * Half(obj.lengthMm),
                             session.dirY * Half(obj.widthMm)))

Geometry(obj) == <<obj.lengthMm, obj.widthMm, obj.xMm, obj.yMm>>

\* a resize gesture made of a pointer-down, pointer-moves and the release
\* only has just ended, and left its object with another size or centre
ResizeCompleted ==
    /\ gesture.kind = "resize"
    /\ gesture.phase = "released"
    /\ lastEvent = "handleStageMouseUp"
    /\ ~gesture.foreign
    /\ gesture.moves >= 1
    /\ HasObject(present.objects, gesture.objectId)
    /\ Geometry(ObjectById(present.objects, gesture.objectId))
         # Geometry(ObjectById(gesture.start.present.objects, gesture.objectId))

\* C29: after a completed resize gesture that changed the object's size or
\* centre, past has grown by exactly one entry and a single undo restores
\* the object's length, width and centre of before the gesture, also when
\* the first pointer-move of the gesture changed nothing.
C29_OneUndoStep ==
    ResizeCompleted
      => /\ Len(history.past) = Len(gesture.start.past) + 1
         /\ Geometry(ObjectById(undo(history, nextRef).present.objects, gesture.objectId))
              = Geometry(ObjectById(gesture.start.present.objects, gesture.objectId))

\* the case C29 names: the gesture's first pointer-move changed nothing and
\* a later one did
C29_FirstMoveIdle ==
    /\ ResizeCompleted
    /\ gesture.moves = 2
    /\ gesture.commits = 0
    /\ gesture.replaces = 1

\* what the code does give: a completed resize gesture whose FIRST applied
\* pointer-move changed the object is one undo step
C29_OneUndoStepWhenFirstMoveChanges ==
    (ResizeCompleted /\ gesture.commits >= 1) => C29_OneUndoStep

-----------------------------------------------------------------------------
(* Locks, panning and selection: claims *)

\* the events that move or resize an object by hand: the end of a drag, a
\* resize update, an arrow-key nudge
MovingEvents == {"handleObjectDragEnd", "handleResizeDrag", "keyArrow"}

C22_LockedAtStartStaysPut ==
    [][\A i \in 1..Len(present.objects) :
          (/\ present.objects[i].locked
           /\ lastEvent' \in MovingEvents
           /\ lastEvent' = "handleObjectDragEnd"
                 => ObjectById(gesture.start.present.objects, present.objects[i].id).locked
           /\ HasObject(history'.present.objects, present.objects[i].id))
          => Geometry(ObjectById(history'.present.objects, present.objects[i].id))
               = Geometry(present.objects[i])]_vars

\* the pointer-move events: handleStagePointerMove with and without a
\* resize session
PointerMoveEvents == {"handleStagePointerMove", "handleResizeDrag"}

\* C28: the gesture states are exclusive: while a pan is in progress
\* (space-drag or right button) no resize or drag session is active, and a
\* pointer-move during the pan changes only the camera: it changes no
\* object and runs no resize or snap computation.
C28_PanExclusive ==
    /\ [](isPanningRef => resizeState = NoSession /\ dragNode = Null)
    /\ [][(isPanningRef /\ lastEvent' \in PointerMoveEvents)
            => /\ history' = history
               /\ lastEvent' # "handleResizeDrag"]_vars

\* what the code does give: a pan started with the space bar held and the
\* left button finds no session, and a pointer-move of a pan that runs
\* alone changes only the camera
C28_PanAloneMovesCamera ==
    /\ [][(lastEvent' = "handleStageMouseDown" /\ isPanningRef' /\ spacePanning /\ PointerFree)
            => resizeState' = NoSession /\ dragNode' = Null]_vars
    /\ [][(isPanningRef /\ PointerFree /\ lastEvent' \in PointerMoveEvents)
            => /\ history' = history
               /\ UNCHANGED <<resizeState, dragNode, draggingId, activeTool>>]_vars

\* the events that only change the selection
SelectionEvents == {"handleSelect", "handleClearSelection"}

\* C30: selecting an object or clearing the selection never creates an undo
\* step: it replaces present only, so past and future are unchanged, and
\* after an undo followed by a selection change redo is still available.
C30_SelectionNoUndoStep ==
    /\ [][lastEvent' \in SelectionEvents
            => /\ history'.past = history.past
               /\ history'.future = history.future
               /\ lastCall' \in {"replace", "none"}
               /\ commits' = commits]_vars
    /\ []((lastEvent \in SelectionEvents /\ prevCall = "undo") => canRedo(history))

\* C30 witness: an undo, then a click on the other object changed the
\* selection, and the undone step can still be redone
C30_Witness ==
    /\ lastEvent = "handleSelect"
    /\ lastCall = "replace"
    /\ prevCall = "undo"
    /\ Len(history.future) = 1
    /\ present.selectedId # history.future[1].selectedId

-----------------------------------------------------------------------------
(* Persistence: claims *)

\* the project as the save effect would capture it now
ProjectNow == ProjectOf(history.present, activeTool)

\* C23: the debounced write is cancelled and rescheduled on every snapshot
\* change and cancelled on teardown: at any time at most one write is
\* pending; a change of the snapshot leaves exactly the write of the new
\* snapshot pending; a write that fires carries the most recent snapshot; no
\* write is pending or fires after teardown; and a write, failing or not,
\* leaves the in-memory HistoryState unchanged.
C23_DebouncedSave ==
    /\ [](/\ Cardinality(timers) <= 1
          /\ \A t \in timers : t.snapshot = ProjectNow
          /\ ~mounted => timers = {})
    /\ [][(mounted' /\ ProjectNow' # ProjectNow)
            => timers' = {[id |-> saveTimerRef', snapshot |-> ProjectNow']}]_vars
    /\ [][lastEvent' = "saveTimerFires"
            => /\ mounted
               /\ lastWrite' = ProjectNow
               /\ history' = history
               /\ timers' = {}]_vars

\* C23 witness: two changes in a row rescheduled the write, the write then
\* was attempted with the latest snapshot and failed: the storage keeps the
\* project of the start, the history is as the changes left it
C23_Witness ==
    /\ lastEvent = "saveTimerFires"
    /\ steps = 3
    /\ commits = 2
    /\ lastWrite = ProjectNow
    /\ storage # Serialised(ProjectNow)
    /\ timers = {}

-----------------------------------------------------------------------------
(* model/geometry/dimensions.ts.  A segment list is a sequence of records; *)
(* a segment that is not built (null) is the empty sequence.               *)

DIMENSION_TICK_LENGTH_MM == 80
DIMENSION_BRACKET_HEIGHT_MM == 160
DIMENSION_BRACKET_SPACING_MM == 60

\* `${Math.round(valueMm)}mm`
formatMm(valueMm) == ToString(MathRound(valueMm) \div Q(1)) \o "mm"

normaliseRotationDeg(rotationDeg) ==
    LET wrapped == JsRem(rotationDeg, Q(360))
    IN  IF wrapped < 0 THEN wrapped + Q(360) ELSE wrapped

isLengthVertical(rotationDeg) ==
    Abs(JsRem(normaliseRotationDeg(rotationDeg), Q(180))) = Q(90)

\* obj.measurementAnchors?.[key] ?? defaultAnchor
getAnchor(obj, key) ==
    IF key \in DOMAIN obj.measurementAnchors.vals
    THEN obj.measurementAnchors.vals[key]
    ELSE [ref |-> 0, offsetMm |-> Q(DEFAULT_MEASUREMENT_OFFSET_MM), orientation |-> "auto"]

\* the segment of a wing that is shown: from the wing's base to its tip, moved
\* along the run by the anchor's offset
WingSegment(obj, measurementKey, wingDirection, wingSize) ==
    LET orientation == IF isLengthVertical(obj.rotationDeg) THEN "horizontal" ELSE "vertical"
        anchor == getAnchor(obj, measurementKey)
        halfRun == Half(obj.runMm)
        halfWidth == Half(obj.widthMm)
        baseRotated == rotatePointMm(Point(halfRun, wingDirection * halfWidth),
                                     obj.rotationDeg)
        tipRotated == rotatePointMm(Point(halfRun, wingDirection * (halfWidth + wingSize)),
                                    obj.rotationDeg)
        lengthDirection == rotatePointMm(Point(1, 0), obj.rotationDeg)
        baseWorld == Point(obj.xMm + baseRotated.xMm + lengthDirection.xMm * anchor.offsetMm,
                           obj.yMm + baseRotated.yMm + lengthDirection.yMm * anchor.offsetMm)
        tipWorld == Point(obj.xMm + tipRotated.xMm + lengthDirection.xMm * anchor.offsetMm,
                          obj.yMm + tipRotated.yMm + lengthDirection.yMm * anchor.offsetMm)
    IN  [measurementKey |-> measurementKey,
         objectId |-> obj.id,
         startMm |-> baseWorld,
         endMm |-> IF orientation = "horizontal" THEN Point(tipWorld.xMm, baseWorld.yMm)
                   ELSE Point(baseWorld.xMm, tipWorld.yMm),
         orientation |-> orientation,
         label |-> formatMm(wingSize),
         variant |-> "wing",
         tickLengthMm |-> Q(DIMENSION_TICK_LENGTH_MM),
         anchorOffsetMm |-> anchor.offsetMm,
         anchorOriginMm |-> Point(obj.xMm + baseRotated.xMm, obj.yMm + baseRotated.yMm),
         anchorDirectionMm |-> lengthDirection]

\* a generator that reads the wing of the other side
buildWingDimensionSegmentOtherSide(obj, side) ==
    LET hasWing == IF side = "left" THEN obj.hasRightWing ELSE obj.hasLeftWing
        wingSize == IF side = "left" THEN obj.rightWingSizeMm ELSE obj.leftWingSizeMm
        measurementKey == IF side = "left" THEN "WL" ELSE "WR"
    IN  IF ~hasWing \/ wingSize <= 0 \/ ~obj.measurements.flags[measurementKey] THEN <<>>
        ELSE <<WingSegment(obj, measurementKey, IF side = "right" THEN 1 ELSE -1, wingSize)>>

buildWingDimensionSegment(obj, side) ==
    LET hasWing == IF side = "left" THEN obj.hasLeftWing ELSE obj.hasRightWing
        wingSize == IF side = "left" THEN obj.leftWingSizeMm ELSE obj.rightWingSizeMm
        measurementKey == IF side = "left" THEN "WL" ELSE "WR"
    IN  IF ~hasWing \/ wingSize <= 0 \/ ~obj.measurements.flags[measurementKey] THEN <<>>
        ELSE <<WingSegment(obj, measurementKey, IF side = "right" THEN 1 ELSE -1, wingSize)>>

\* getRampBoundingBoxMm(obj, { includeWings: false }) for a ramp
getDimensionBoundingBox(obj) ==
    IF obj.kind = "ramp"
    THEN getRampBoundingBoxMm([obj EXCEPT !.hasLeftWing = FALSE, !.hasRightWing = FALSE])
    ELSE getObjectBoundingBoxMm(obj)

\* left, right, top and bottom of the box the edge segments are drawn around
DimensionEdges(obj, bbox) ==
    LET topLeft == topLeftFromCenterMm(Point(obj.xMm, obj.yMm), bbox)
    IN  [left |-> topLeft.xMm, right |-> topLeft.xMm + bbox.widthMm,
         top |-> topLeft.yMm, bottom |-> topLeft.yMm + bbox.heightMm]

LengthKeys == {"L1", "L2"}
NearKeys == {"L1", "W1"}

\* an orientation that follows the rotation whatever the anchor says
edgeOrientationIgnoresAnchor(anchor, key, verticalLength) ==
    IF key \in LengthKeys
    THEN (IF verticalLength THEN "vertical" ELSE "horizontal")
    ELSE (IF verticalLength THEN "horizontal" ELSE "vertical")

\* the orientation of an edge segment: L1 and L2 run along the length, W1 and
\* W2 across it, unless the anchor names an orientation
edgeOrientation(anchor, key, verticalLength) ==
    IF anchor.orientation = "auto"
    THEN IF key \in LengthKeys
         THEN (IF verticalLength THEN "vertical" ELSE "horizontal")
         ELSE (IF verticalLength THEN "horizontal" ELSE "vertical")
    ELSE anchor.orientation

\* the segment of one of L1, L2, W1, W2: L1 and W1 lie before the box (left
\* of it or above it), L2 and W2 after it (right of it or below it)
EdgeSegment(obj, key, box, orientation, offset) ==
    LET vertical == orientation = "vertical"
        near == key \in NearKeys
        x == IF near THEN box.left - offset ELSE box.right + offset
        y == IF near THEN box.top - offset ELSE box.bottom + offset
    IN  [measurementKey |-> key,
         objectId |-> obj.id,
         startMm |-> IF vertical THEN Point(x, box.top) ELSE Point(box.left, y),
         endMm |-> IF vertical THEN Point(x, box.bottom) ELSE Point(box.right, y),
         orientation |-> IF vertical THEN "vertical" ELSE "horizontal",
         label |-> IF vertical THEN formatMm(box.bottom - box.top)
                   ELSE formatMm(box.right - box.left),
         variant |-> IF key \in LengthKeys THEN "length" ELSE "width",
         tickLengthMm |-> Q(DIMENSION_TICK_LENGTH_MM),
         anchorOffsetMm |-> offset,
         anchorOriginMm |-> IF near THEN Point(box.left, box.top)
                            ELSE IF vertical THEN Point(box.right, box.top)
                            ELSE Point(box.left, box.bottom),
         anchorDirectionMm |-> IF near
                               THEN (IF vertical THEN Point(-1, 0) ELSE Point(0, -1))
                               ELSE (IF vertical THEN Point(1, 0) ELSE Point(0, 1))]

\* one `if (obj.measurements.<key>) { ... segments.push(...) }` block
EdgeBlock(obj, key, box) ==
    IF obj.measurements.flags[key]
    THEN <<EdgeSegment(obj, key, box,
                       edgeOrientation(getAnchor(obj, key), key,
                                       isLengthVertical(obj.rotationDeg)),
                       getAnchor(obj, key).offsetMm)>>
    ELSE <<>>

EdgeBlocks(obj, box) ==
    EdgeBlock(obj, "L1", box) \o EdgeBlock(obj, "L2", box)
        \o EdgeBlock(obj, "W1", box) \o EdgeBlock(obj, "W2", box)

buildEdgeDimensionSegments(obj) ==
    EdgeBlocks(obj, DimensionEdges(obj, getDimensionBoundingBox(obj)))
        \o (IF obj.kind = "ramp"
            THEN buildWingDimensionSegment(obj, "left")
                    \o buildWingDimensionSegment(obj, "right")
            ELSE <<>>)

HeightBracket(obj, centerY, offsetMm) ==
    [measurementKey |-> "H",
     objectId |-> obj.id,
     startMm |-> Point(obj.xMm - Half(offsetMm), centerY),
     endMm |-> Point(obj.xMm + Half(offsetMm), centerY),
     orientation |-> "horizontal",
     label |-> "H " \o formatMm(obj.heightMm),
     variant |-> "height",
     tickLengthMm |-> Q(DIMENSION_TICK_LENGTH_MM),
     anchorOffsetMm |-> offsetMm,
     anchorOriginMm |-> Point(obj.xMm, centerY),
     anchorDirectionMm |-> Point(1, 0),
     anchorScale |-> 2,
     labelPositionMm |-> Point(obj.xMm + LabelCoord(obj.measurementLabels, "H", "xMm"),
                               centerY + LabelCoord(obj.measurementLabels, "H", "yMm"))]

ElevationBracket(obj, box, offsetMm) ==
    LET offset == Half(offsetMm) + Q(DIMENSION_BRACKET_SPACING_MM)
    IN  [measurementKey |-> "E",
         objectId |-> obj.id,
         startMm |-> Point(box.left - offset, box.top),
         endMm |-> Point(box.left - offset, box.top - Q(DIMENSION_BRACKET_HEIGHT_MM)),
         orientation |-> "vertical",
         label |-> "E " \o formatMm(obj.elevationMm),
         variant |-> "elevation",
         tickLengthMm |-> Q(DIMENSION_TICK_LENGTH_MM),
         anchorOffsetMm |-> offsetMm,
         anchorOriginMm |-> Point(box.left - Q(DIMENSION_BRACKET_SPACING_MM), box.top),
         anchorDirectionMm |-> Point(-1, 0),
         anchorScale |-> 2,
         labelPositionMm |->
             Point(box.left - offset + LabelCoord(obj.measurementLabels, "E", "xMm"),
                   box.top - Q(DIMENSION_BRACKET_HEIGHT_MM)
                       + LabelCoord(obj.measurementLabels, "E", "yMm"))]

Brackets(obj, box) ==
    (IF obj.measurements.flags["H"]
     THEN <<HeightBracket(obj, box.top + Half(box.bottom - box.top),
                          getAnchor(obj, "H").offsetMm)>>
     ELSE <<>>)
    \o (IF obj.measurements.flags["E"] /\ obj.elevationMm > 0
        THEN <<ElevationBracket(obj, box, getAnchor(obj, "E").offsetMm)>>
        ELSE <<>>)

buildBracketSegments(obj) ==
    Brackets(obj, DimensionEdges(obj, getDimensionBoundingBox(obj)))

\* a generator that puts the brackets first
generateDimensionsBracketsFirst(obj) ==
    buildBracketSegments(obj) \o buildEdgeDimensionSegments(obj)

generateDimensionsForObject(obj) ==
    buildEdgeDimensionSegments(obj) \o buildBracketSegments(obj)

-----------------------------------------------------------------------------
(* SpecDims: generateDimensionsForObject applied to one object, over every  *)
(* combination of measurement toggles, the anchor orientations of the four  *)
(* edges, and the fixture of the dimension preview.                         *)

DimensionKinds == {"landing", "ramp"}

\* rotations as stored and as a caller may pass them (negative, beyond 360)
DimensionRotations == {Q(0), Q(90), Q(180), Q(0 - 90), Q(450)}

\* wings of a ramp: none, right only, both, and a left wing enabled at size 0
DimensionWings ==
    {[hasLeftWing |-> FALSE, leftWingSizeMm |-> 0,
      hasRightWing |-> FALSE, rightWingSizeMm |-> 0],
     [hasLeftWing |-> FALSE, leftWingSizeMm |-> 0,
      hasRightWing |-> TRUE, rightWingSizeMm |-> Q(500)],
     [hasLeftWing |-> TRUE, leftWingSizeMm |-> Q(300),
      hasRightWing |-> TRUE, rightWingSizeMm |-> Q(500)],
     [hasLeftWing |-> TRUE, leftWingSizeMm |-> 0,
      hasRightWing |-> FALSE, rightWingSizeMm |-> Q(500)]}

DimensionElevations == {Q(0), Q(150)}

EdgeKeys == {"L1", "L2", "W1", "W2"}

AnchorOrientations == {"auto", "horizontal", "vertical"}

DimensionOffsets == {Q(DEFAULT_MEASUREMENT_OFFSET_MM), Q(350)}

\* a default object away from the origin, with the given toggles switched on
\* and the given orientations and offset in the anchors of the four edges
DimensionSubject(kind, rotationDeg, elevationMm, on, orientations, offsetMm) ==
    [(IF kind = "ramp" THEN newRampAt(makeId(1), Q(500), Q(0 - 250), 1)
      ELSE newLandingAt(makeId(1), Q(500), Q(0 - 250), 1))
     EXCEPT !.rotationDeg = rotationDeg,
            !.elevationMm = elevationMm,
            !.measurements.flags = [k \in KeySet |-> k \in on],
            !.measurementAnchors.vals =
                [k \in KeySet |->
                    IF k \in EdgeKeys
                    THEN [@[k] EXCEPT !.orientation = orientations[k],
                                      !.offsetMm = offsetMm]
                    ELSE @[k]]]

WithWings(obj, wings) ==
    IF obj.kind = "ramp"
    THEN [obj EXCEPT !.hasLeftWing = wings.hasLeftWing,
                     !.leftWingSizeMm = wings.leftWingSizeMm,
                     !.hasRightWing = wings.hasRightWing,
                     !.rightWingSizeMm = wings.rightWingSizeMm]
    ELSE obj

\* rampWithRightWingFixture of the dimension preview
rampWithRightWingFixture ==
    FreshObject(
        [ref |-> 0, id |-> "fixture-ramp-with-right-wing", kind |-> "ramp",
         xMm |-> Q(0), yMm |-> Q(0),
         lengthMm |-> Q(1000), widthMm |-> Q(1000), heightMm |-> Q(0),
         elevationMm |-> Q(0), rotationDeg |-> Q(0), locked |-> FALSE,
         measurements |->
             [ref |-> 0,
              flags |-> [k \in KeySet |-> k \in {"L1", "L2", "W1", "W2", "WR"}]],
         measurementLabels |-> defaultMeasurementLabels,
         measurementAnchors |-> defaultMeasurementAnchors,
         runMm |-> Q(1000), showArrow |-> TRUE,
         hasLeftWing |-> FALSE, leftWingSizeMm |-> Q(0),
         hasRightWing |-> TRUE, rightWingSizeMm |-> Q(500)],
        1)

\* the fixture as it is, and with its left wing measured as well
DimensionFixtures ==
    {rampWithRightWingFixture,
     [rampWithRightWingFixture EXCEPT !.measurements.flags["WL"] = TRUE]}

\* one call in a behaviour: the generator keeps no state between calls
DimsCalled(obj) ==
    /\ ~pureCall.called
    /\ pureCall' = [called |-> TRUE, obj |-> obj,
                    segments |-> generateDimensionsForObject(obj)]
    /\ UNCHANGED <<history, lastArg, lastEvent, lastCall, prevCall, nextRef, commits,
                   detours, steps, uiVars>>

\* every combination of toggles, anchors left at "auto"
DimsCallToggles ==
    \E kind \in DimensionKinds : \E rotationDeg \in {Q(0), Q(90)} :
    \E elevationMm \in DimensionElevations : \E on \in SUBSET KeySet :
    \E wings \in DimensionWings :
        DimsCalled(WithWings(DimensionSubject(kind, rotationDeg, elevationMm, on,
                                              [k \in EdgeKeys |-> "auto"],
                                              Q(DEFAULT_MEASUREMENT_OFFSET_MM)),
                             wings))

\* every assignment of orientations to the anchors of the four edges, the
\* edges and the right wing measured
DimsCallAnchors ==
    \E kind \in DimensionKinds : \E rotationDeg \in DimensionRotations :
    \E orientations \in [EdgeKeys -> AnchorOrientations] :
    \E offsetMm \in DimensionOffsets :
        DimsCalled(WithWings(DimensionSubject(kind, rotationDeg, Q(0),
                                              EdgeKeys \cup {"WR"}, orientations, offsetMm),
                             [hasLeftWing |-> FALSE, leftWingSizeMm |-> 0,
                              hasRightWing |-> TRUE, rightWingSizeMm |-> Q(500)]))

DimsCallFixture ==
    \E obj \in DimensionFixtures : DimsCalled(obj)

DimsNext ==
    \/ DimsCallFixture
    \/ DimsCallAnchors
    \/ DimsCallToggles

SpecDims == UpdateInit /\ [][DimsNext]_vars

-----------------------------------------------------------------------------
(* The dimension generator: claims *)

DimensionKeys(segments) == [i \in 1..Len(segments) |-> segments[i].measurementKey]

\* the measurement has a segment: its toggle is on, a wing measurement belongs
\* to a ramp's enabled wing of a size above 0, the elevation is above 0
Shown(obj, key) ==
    /\ obj.measurements.flags[key]
    /\ key = "WL" => obj.kind = "ramp" /\ obj.hasLeftWing /\ obj.leftWingSizeMm > 0
    /\ key = "WR" => obj.kind = "ramp" /\ obj.hasRightWing /\ obj.rightWingSizeMm > 0
    /\ key = "E" => obj.elevationMm > 0

\* C24: for every combination of measurement toggles the segments come in the
\* order L1, L2, W1, W2, WL, WR, H, E, one segment for each measurement that
\* is shown; an object with the same field values but other identities gives
\* the very same segment list.
C24_FixedOrder ==
    pureCall.called =>
        /\ DimensionKeys(pureCall.segments)
              = SelectSeq(MEASUREMENT_KEYS, LAMBDA k : Shown(pureCall.obj, k))
        /\ generateDimensionsForObject(FreshObject(pureCall.obj, 100)) = pureCall.segments

\* C24 witness: a ramp with both wings and an elevation, every toggle on, got
\* its eight segments
C24_Witness ==
    /\ pureCall.called
    /\ pureCall.obj.kind = "ramp"
    /\ \A k \in KeySet : pureCall.obj.measurements.flags[k]
    /\ Len(pureCall.segments) = Len(MEASUREMENT_KEYS)

\* |rotationDeg mod 180| == 90
LengthAxisVertical(obj) == Abs(JsRem(obj.rotationDeg, Q(180))) = Q(90)

\* the segment follows the anchor: with "auto" it is vertical exactly when
\* `vertical` holds and horizontal otherwise, else it has the anchor's
\* orientation
FollowsAnchor(segment, anchor, vertical) ==
    IF anchor.orientation = "auto"
    THEN segment.orientation = (IF vertical THEN "vertical" ELSE "horizontal")
    ELSE segment.orientation = anchor.orientation

\* C25 as stated: each of L1, L2, W1, W2 with an "auto" anchor is vertical
\* exactly when |rotationDeg mod 180| == 90 and horizontal otherwise, and has
\* the anchor's orientation when that is "horizontal" or "vertical".
C25_AutoVerticalAtRightAngle ==
    pureCall.called =>
        \A i \in 1..Len(pureCall.segments) :
            pureCall.segments[i].measurementKey \in EdgeKeys =>
                FollowsAnchor(pureCall.segments[i],
                              getAnchor(pureCall.obj, pureCall.segments[i].measurementKey),
                              LengthAxisVertical(pureCall.obj))

\* C25, amended: with an "auto" anchor L1 and L2 are vertical exactly when
\* |rotationDeg mod 180| == 90 and horizontal otherwise, while W1 and W2 are
\* horizontal exactly when |rotationDeg mod 180| == 90 and vertical
\* otherwise; with a "horizontal" or "vertical" anchor each of the four has
\* that orientation regardless of rotation.
C25_AutoFollowsOwnAxis ==
    pureCall.called =>
        \A i \in 1..Len(pureCall.segments) :
            pureCall.segments[i].measurementKey \in EdgeKeys =>
                FollowsAnchor(pureCall.segments[i],
                              getAnchor(pureCall.obj, pureCall.segments[i].measurementKey),
                              IF pureCall.segments[i].measurementKey \in LengthKeys
                              THEN LengthAxisVertical(pureCall.obj)
                              ELSE ~LengthAxisVertical(pureCall.obj))

\* C25 witness: an object turned by 90 degrees whose L1 and W1 anchors are
\* "auto", whose L2 anchor is "horizontal" and whose W2 anchor is "vertical"
\* got its four edge segments
C25_Witness ==
    /\ pureCall.called
    /\ pureCall.obj.rotationDeg = Q(90)
    /\ getAnchor(pureCall.obj, "L1").orientation = "auto"
    /\ getAnchor(pureCall.obj, "W1").orientation = "auto"
    /\ getAnchor(pureCall.obj, "L2").orientation = "horizontal"
    /\ getAnchor(pureCall.obj, "W2").orientation = "vertical"
    /\ EdgeKeys \subseteq {pureCall.segments[i].measurementKey :
                              i \in 1..Len(pureCall.segments)}

\* the labels of the segments of a measurement, one entry per segment
LabelsOf(segments, key) ==
    SelectSeq([i \in 1..Len(segments) |->
                  IF segments[i].measurementKey = key THEN <<segments[i].label>> ELSE <<>>],
              LAMBDA l : l # <<>>)

\* C26: for the ramp at (0,0) with runMm 1000, widthMm 1000, rotation 0, a
\* 500 mm right wing and L1, L2, W1, W2, WR enabled, the generator gives one
\* L1 and one L2 segment labelled "1000mm", one WR segment labelled "500mm"
\* and no WL segment.
C26_FixtureLabels ==
    (pureCall.called /\ pureCall.obj = rampWithRightWingFixture) =>
        /\ LabelsOf(pureCall.segments, "L1") = << <<"1000mm">> >>
        /\ LabelsOf(pureCall.segments, "L2") = << <<"1000mm">> >>
        /\ LabelsOf(pureCall.segments, "WR") = << <<"500mm">> >>
        /\ LabelsOf(pureCall.segments, "WL") = << >>

\* C26 witness: the generator was applied to the fixture and gave five
\* segments
C26_Witness ==
    /\ pureCall.called
    /\ pureCall.obj = rampWithRightWingFixture
    /\ DimensionKeys(pureCall.segments) = <<"L1", "L2", "W1", "W2", "WR">>

====
